---- MODULE Spec2Model ----
(***************************************************************************)
(* Model of the Asana REST client of tools/asana/scripts/asana_client.py.  *)
(*                                                                         *)
(* Text (response bodies, header values, error messages) is a sequence of  *)
(* one-character strings.  Python values produced by json parsing are      *)
(* tagged records:                                                         *)
(*    [t |-> "none"]  [t |-> "bool", b]  [t |-> "int", n]  [t |-> "str", s] *)
(*    [t |-> "list", items]  [t |-> "dict", items]  (items: <<key, value>>) *)
(***************************************************************************)
EXTENDS Integers, Sequences, FiniteSets, TLC

\* ---------------------------------------------------------------- constants
MAX_RETRIES == 3

REQUEST_TIMEOUT == 30

DEFAULT_RETRY_AFTER == 60

DETAIL_LIMIT == 200

\* ------------------------------------------------------------------- bounds
\* Length of the padding of the long response bodies (longer than DETAIL_LIMIT).
PadLen == 203

\* Most network failures the remote side is let to force on one logical call.
MaxFailures == 5

\* Most invocations a program makes on one client.
MaxOps == 2

\* ---------------------------------------------------------- text primitives
DigitChars == <<"0", "1", "2", "3", "4", "5", "6", "7", "8", "9">>

IsDigit(c) == \E d \in 1..10 : DigitChars[d] = c

DigitVal(c) == (CHOOSE d \in 1..10 : DigitChars[d] = c) - 1

\* s[:n]
Take(s, n) == SubSeq(s, 1, IF Len(s) < n THEN Len(s) ELSE n)

\* needle in haystack, for two str values
IsSubstring(needle, hay) ==
    \E i \in 0..(Len(hay) - Len(needle)) :
        SubSeq(hay, i + 1, i + Len(needle)) = needle

RECURSIVE FormatNat(_)
FormatNat(n) ==
    IF n < 10 THEN <<DigitChars[n + 1]>>
    ELSE FormatNat(n \div 10) \o <<DigitChars[(n % 10) + 1]>>

\* str(n) / f"{n}" of an int
FormatInt(n) == IF n < 0 THEN <<"-">> \o FormatNat(-n) ELSE FormatNat(n)

RECURSIVE DigitsVal(_)
DigitsVal(s) ==
    IF Len(s) = 0 THEN 0
    ELSE 10 * DigitsVal(SubSeq(s, 1, Len(s) - 1)) + DigitVal(s[Len(s)])

RECURSIVE StripLeft(_)
StripLeft(s) ==
    IF Len(s) > 0 /\ s[1] = " " THEN StripLeft(Tail(s)) ELSE s

RECURSIVE StripRight(_)
StripRight(s) ==
    IF Len(s) > 0 /\ s[Len(s)] = " " THEN StripRight(SubSeq(s, 1, Len(s) - 1)) ELSE s

\* int(s) of a str: surrounding blanks are ignored, one optional sign, then
\* at least one decimal digit; anything else is a ValueError.
IntOfStr(s) ==
    LET body   == StripRight(StripLeft(s))
        signed == Len(body) > 0 /\ body[1] \in {"+", "-"}
        digits == IF signed THEN Tail(body) ELSE body
        valid  == Len(digits) > 0 /\ \A i \in 1..Len(digits) : IsDigit(digits[i])
    IN  IF ~valid THEN [ok |-> FALSE, n |-> 0]
        ELSE [ok |-> TRUE,
              n  |-> IF signed /\ body[1] = "-" THEN -DigitsVal(digits)
                     ELSE DigitsVal(digits)]

\* ------------------------------------------------------------ python values
PyNone == [t |-> "none"]

PyBool(b) == [t |-> "bool", b |-> b]

PyInt(n) == [t |-> "int", n |-> n]

PyStr(s) == [t |-> "str", s |-> s]

PyList(items) == [t |-> "list", items |-> items]

PyDict(items) == [t |-> "dict", items |-> items]

\* d[k] = v on the item list of a dict: a repeated key keeps its first
\* position and takes the last value.
DictPut(items, k, v) ==
    IF \E i \in 1..Len(items) : items[i][1] = k
    THEN [i \in 1..Len(items) |-> IF items[i][1] = k THEN <<k, v>> ELSE items[i]]
    ELSE Append(items, <<k, v>>)

\* k in d
DictHas(d, k) == \E i \in 1..Len(d.items) : d.items[i][1] = k

\* d[k], for a key that is present
DictGet(d, k) == d.items[CHOOSE i \in 1..Len(d.items) : d.items[i][1] = k][2]

RECURSIVE JoinText(_, _)
\* sep.join(parts) for a sequence of texts
JoinText(parts, sep) ==
    IF Len(parts) = 0 THEN <<>>
    ELSE IF Len(parts) = 1 THEN parts[1]
    ELSE parts[1] \o sep \o JoinText(Tail(parts), sep)

RECURSIVE PyRepr(_)
\* repr(v), which is what str() of a dict or list shows of its members
PyRepr(v) ==
    CASE v.t = "none" -> <<"N", "o", "n", "e">>
      [] v.t = "bool" -> IF v.b THEN <<"T", "r", "u", "e">>
                         ELSE <<"F", "a", "l", "s", "e">>
      [] v.t = "int"  -> FormatInt(v.n)
      [] v.t = "str"  -> <<"'">> \o v.s \o <<"'">>
      [] v.t = "list" ->
            <<"[">> \o JoinText([i \in 1..Len(v.items) |-> PyRepr(v.items[i])],
                               <<",", " ">>) \o <<"]">>
      [] v.t = "dict" ->
            <<"{">> \o JoinText([i \in 1..Len(v.items) |->
                                    <<"'">> \o v.items[i][1] \o <<"'", ":", " ">>
                                       \o PyRepr(v.items[i][2])],
                               <<",", " ">>) \o <<"}">>

\* -------------------------------------------------------------- json parser
\* A parse step yields [ok, v, p]: success, the value, the next position.
ParseFail == [ok |-> FALSE, v |-> PyNone, p |-> 0]

ParseOk(v, p) == [ok |-> TRUE, v |-> v, p |-> p]

RECURSIVE SkipWs(_, _)
SkipWs(s, i) == IF i <= Len(s) /\ s[i] = " " THEN SkipWs(s, i + 1) ELSE i

\* s starts with the text w at position i
StartsWith(s, i, w) == i + Len(w) - 1 <= Len(s) /\ SubSeq(s, i, i + Len(w) - 1) = w

RECURSIVE DigitsEnd(_, _)
\* first position at or after i that holds no digit
DigitsEnd(s, i) == IF i <= Len(s) /\ IsDigit(s[i]) THEN DigitsEnd(s, i + 1) ELSE i

\* a string: a quote, characters other than quote and backslash, a quote
ParseString(s, i) ==
    IF ~(i <= Len(s) /\ s[i] = "\"") THEN ParseFail
    ELSE LET closers == {j \in (i + 1)..Len(s) : s[j] = "\""}
         IN  IF closers = {} THEN ParseFail
             ELSE LET j == CHOOSE c \in closers : \A d \in closers : c <= d
                  IN  IF \E k \in (i + 1)..(j - 1) : s[k] = "\\" THEN ParseFail
                      ELSE ParseOk(PyStr(SubSeq(s, i + 1, j - 1)), j + 1)

\* an integer: optional minus, then 0 or a digit run without a leading zero
ParseNumber(s, i) ==
    LET neg == i <= Len(s) /\ s[i] = "-"
        b   == IF neg THEN i + 1 ELSE i
        e   == IF b <= Len(s) /\ s[b] = "0" THEN b + 1 ELSE DigitsEnd(s, b)
        n   == DigitsVal(SubSeq(s, b, e - 1))
    IN  IF e = b THEN ParseFail
        ELSE ParseOk(PyInt(IF neg THEN -n ELSE n), e)

RECURSIVE ParseValue(_, _), ParseElements(_, _, _), ParseMembers(_, _, _)
ParseValue(s, i) ==
    IF i > Len(s) THEN ParseFail
    ELSE CASE s[i] = "{" ->
                LET j == SkipWs(s, i + 1)
                IN  IF j <= Len(s) /\ s[j] = "}" THEN ParseOk(PyDict(<<>>), j + 1)
                    ELSE ParseMembers(s, j, <<>>)
           [] s[i] = "[" ->
                LET j == SkipWs(s, i + 1)
                IN  IF j <= Len(s) /\ s[j] = "]" THEN ParseOk(PyList(<<>>), j + 1)
                    ELSE ParseElements(s, j, <<>>)
           [] s[i] = "\"" -> ParseString(s, i)
           [] StartsWith(s, i, <<"n", "u", "l", "l">>) -> ParseOk(PyNone, i + 4)
           [] StartsWith(s, i, <<"t", "r", "u", "e">>) -> ParseOk(PyBool(TRUE), i + 4)
           [] StartsWith(s, i, <<"f", "a", "l", "s", "e">>) -> ParseOk(PyBool(FALSE), i + 5)
           [] OTHER -> ParseNumber(s, i)

\* value ("," value)* "]" from position i, acc the elements read so far
ParseElements(s, i, acc) ==
    LET r == ParseValue(s, i)
    IN  IF ~r.ok THEN ParseFail
        ELSE LET j == SkipWs(s, r.p)
             IN  IF j > Len(s) THEN ParseFail
                 ELSE IF s[j] = "]" THEN ParseOk(PyList(Append(acc, r.v)), j + 1)
                 ELSE IF s[j] = "," THEN ParseElements(s, SkipWs(s, j + 1), Append(acc, r.v))
                 ELSE ParseFail

\* string ":" value ("," string ":" value)* "}" from position i
ParseMembers(s, i, acc) ==
    LET k == ParseString(s, i)
    IN  IF ~k.ok THEN ParseFail
        ELSE LET c == SkipWs(s, k.p)
             IN  IF ~(c <= Len(s) /\ s[c] = ":") THEN ParseFail
                 ELSE LET r == ParseValue(s, SkipWs(s, c + 1))
                      IN  IF ~r.ok THEN ParseFail
                          ELSE LET j   == SkipWs(s, r.p)
                                   put == DictPut(acc, k.v.s, r.v)
                               IN  IF j > Len(s) THEN ParseFail
                                   ELSE IF s[j] = "}" THEN ParseOk(PyDict(put), j + 1)
                                   ELSE IF s[j] = ","
                                        THEN ParseMembers(s, SkipWs(s, j + 1), put)
                                   ELSE ParseFail

\* resp.json(): one value, blanks around it, nothing after it
JsonLoads(text) ==
    LET r == ParseValue(text, SkipWs(text, 1))
    IN  IF r.ok /\ SkipWs(text, r.p) = Len(text) + 1 THEN r ELSE ParseFail

\* ------------------------------------------------------- errors and results
\* status_code of an exception: PyInt(n), PyNone, or NoAttr when the class
\* has no such attribute.
NoAttr == [t |-> "absent"]

\* AsanaAPIError(message, status_code)
AsanaAPIError(message, status_code) ==
    [type |-> "AsanaAPIError", status_code |-> status_code, message |-> message]

\* a variant that raises the generic class, status_code left at its default
AuthErrorAsApiError(message) == AsanaAPIError(message, PyNone)

\* AsanaAuthError(message)
AsanaAuthError(message) ==
    [type |-> "AsanaAuthError", status_code |-> NoAttr, message |-> message]

\* an exception of another library that _request does not catch
ForeignError(type) == [type |-> type, status_code |-> NoAttr, message |-> <<>>]

Raise(e) == [raised |-> TRUE, error |-> e, value |-> PyNone]

Return(v) == [raised |-> FALSE, error |-> ForeignError("none"), value |-> v]

\* A literal piece of a format string is kept as one element of the text.
RateLimitMessage(retry_after) ==
    <<"Rate limited. Retry after ">> \o FormatInt(retry_after) \o <<"s">>

ApiErrorMessage(status_code, error_detail) ==
    <<"API error ">> \o FormatInt(status_code) \o <<":", " ">> \o error_detail

AuthFailedMessage == <<"Authentication failed. Check your access token.">>

TimeoutMessage == <<"Request timed out after ">> \o FormatInt(REQUEST_TIMEOUT) \o <<"s">>

ConnectionMessage == <<"Connection error: ", "<e>">>

\* ---------------------------------------------------------------- responses
\* A response: status_code, the Retry-After header ([present, value]), text.
NoHeader == [present |-> FALSE, value |-> <<>>]

Header(value) == [present |-> TRUE, value |-> value]

\* resp.ok: raise_for_status() raises for 400 <= status_code < 600 only
RespOk(resp) == ~(400 <= resp.status_code /\ resp.status_code < 600)

ERRORS == <<"e", "r", "r", "o", "r", "s">>

MESSAGE == <<"m", "e", "s", "s", "a", "g", "e">>

\* "; ".join(e.get("message", str(e)) for e in error_json["errors"]), and the
\* membership test before it; ok is FALSE when an exception is raised.
DetailFail == [ok |-> FALSE, text |-> <<>>]

DetailOk(text) == [ok |-> TRUE, text |-> text]

\* what iterating error_json["errors"] yields; ok is FALSE for a TypeError
IterValues(v) ==
    CASE v.t = "list" -> [ok |-> TRUE, items |-> v.items]
      [] v.t = "dict" -> [ok |-> TRUE,
                          items |-> [i \in 1..Len(v.items) |-> PyStr(v.items[i][1])]]
      [] v.t = "str"  -> [ok |-> TRUE,
                          items |-> [i \in 1..Len(v.s) |-> PyStr(<<v.s[i]>>)]]
      [] OTHER        -> [ok |-> FALSE, items |-> <<>>]

\* e.get("message", str(e)) of one member; e must be a dict (AttributeError)
\* and the result a str (TypeError in join)
MemberMessage(e) ==
    IF e.t # "dict" THEN DetailFail
    ELSE LET m == IF DictHas(e, MESSAGE) THEN DictGet(e, MESSAGE) ELSE PyStr(PyRepr(e))
         IN  IF m.t = "str" THEN DetailOk(m.s) ELSE DetailFail

JoinedErrors(errors) ==
    LET it == IterValues(errors)
        ms == [i \in 1..Len(it.items) |-> MemberMessage(it.items[i])]
    IN  IF ~it.ok \/ \E i \in 1..Len(ms) : ~ms[i].ok THEN DetailFail
        ELSE DetailOk(JoinText([i \in 1..Len(ms) |-> ms[i].text], <<";", " ">>))

\* the body of the try at lines 123-128, on the parsed error_json
StructuredDetail(error_json) ==
    CASE error_json.t = "dict" ->
            IF DictHas(error_json, ERRORS)
            THEN JoinedErrors(DictGet(error_json, ERRORS))
            ELSE DetailOk(<<>>)
      [] error_json.t = "list" ->
            \* indexing a list by "errors" is a TypeError
            IF \E i \in 1..Len(error_json.items) : error_json.items[i] = PyStr(ERRORS)
            THEN DetailFail ELSE DetailOk(<<>>)
      [] error_json.t = "str" ->
            \* substring test; indexing a str by "errors" is a TypeError
            IF IsSubstring(ERRORS, error_json.s) THEN DetailFail ELSE DetailOk(<<>>)
      [] OTHER -> DetailFail

\* a variant that keeps the whole raw body
RawFallbackWhole(resp) == resp.text

\* resp.text[:200] of line 130
RawFallback(resp) == Take(resp.text, DETAIL_LIMIT)

\* error_detail of lines 122-130
ErrorDetail(resp) ==
    LET parsed == JsonLoads(resp.text)
        detail == IF parsed.ok THEN StructuredDetail(parsed.v) ELSE DetailFail
    IN  IF detail.ok THEN detail.text ELSE RawFallback(resp)

\* a variant that never reads the header
RetryAfterIgnoringHeader(resp) == [ok |-> TRUE, n |-> DEFAULT_RETRY_AFTER]

\* int(resp.headers.get("Retry-After", 60))
RetryAfter(resp) ==
    IF resp.retry_after.present THEN IntOfStr(resp.retry_after.value)
    ELSE [ok |-> TRUE, n |-> DEFAULT_RETRY_AFTER]

\* line 114
IsRateLimited(resp) == resp.status_code = 429

\* a variant that tests for 403
IsUnauthorized403(resp) == resp.status_code = 403

\* line 118
IsUnauthorized(resp) == resp.status_code = 401

\* lines 114-134: what _request does with a response it received
HandleResponse(resp) ==
    IF IsRateLimited(resp)
    THEN LET ra == RetryAfter(resp)
         IN  IF ra.ok THEN Raise(AsanaAPIError(RateLimitMessage(ra.n), PyInt(429)))
             ELSE Raise(ForeignError("ValueError"))
    ELSE IF IsUnauthorized(resp) THEN Raise(AsanaAuthError(AuthFailedMessage))
    ELSE IF ~RespOk(resp)
    THEN Raise(AsanaAPIError(ApiErrorMessage(resp.status_code, ErrorDetail(resp)),
                             PyInt(resp.status_code)))
    ELSE LET parsed == JsonLoads(resp.text)
         IN  IF parsed.ok THEN Return(parsed.v)
             ELSE Raise(ForeignError("JSONDecodeError"))

\* ----------------------------------------------------- the remote service
\* Response bodies the remote service is let to send.
\* {"data":{"gid":"7"}}: a record, as a successful call returns it
BodyData ==
    <<"{", "\"", "d", "a", "t", "a", "\"", ":", "{", "\"", "g", "i", "d", "\"", ":",
      "\"", "7", "\"", "}", "}">>

\* {"data": []}: an empty collection
BodyDataList == <<"{", "\"", "d", "a", "t", "a", "\"", ":", " ", "[", "]", "}">>

\* {"errors":[{"message":"no"},{"message":"go"}]}: two server-reported messages
BodyErrors2 ==
    <<"{", "\"", "e", "r", "r", "o", "r", "s", "\"", ":", "[", "{", "\"", "m", "e",
      "s", "s", "a", "g", "e", "\"", ":", "\"", "n", "o", "\"", "}", ",", "{", "\"",
      "m", "e", "s", "s", "a", "g", "e", "\"", ":", "\"", "g", "o", "\"", "}", "]",
      "}">>

\* {"errors":[{"message":"no","help":"x"}]}: one server-reported message
BodyErrors1 ==
    <<"{", "\"", "e", "r", "r", "o", "r", "s", "\"", ":", "[", "{", "\"", "m", "e",
      "s", "s", "a", "g", "e", "\"", ":", "\"", "n", "o", "\"", ",", "\"", "h", "e",
      "l", "p", "\"", ":", "\"", "x", "\"", "}", "]", "}">>

\* {"errors":[]}: an empty errors list
BodyErrorsEmpty == <<"{", "\"", "e", "r", "r", "o", "r", "s", "\"", ":", "[", "]", "}">>

\* {"errors":[{"code":5}]}: an error without a message
BodyErrorsNoMessage ==
    <<"{", "\"", "e", "r", "r", "o", "r", "s", "\"", ":", "[", "{", "\"", "c", "o",
      "d", "e", "\"", ":", "5", "}", "]", "}">>

\* {"errors":["no"]}: errors that are not objects
BodyErrorsStrings ==
    <<"{", "\"", "e", "r", "r", "o", "r", "s", "\"", ":", "[", "\"", "n", "o", "\"",
      "]", "}">>

\* {"errors":null}: errors that is no list
BodyErrorsNull ==
    <<"{", "\"", "e", "r", "r", "o", "r", "s", "\"", ":", "n", "u", "l", "l", "}">>

\* {"errors":[{"message":5}]}: a message that is no string
BodyErrorsIntMessage ==
    <<"{", "\"", "e", "r", "r", "o", "r", "s", "\"", ":", "[", "{", "\"", "m", "e",
      "s", "s", "a", "g", "e", "\"", ":", "5", "}", "]", "}">>

\* []: valid json, no object
BodyList == <<"[", "]">>

\* null: valid json, no container
BodyNull == <<"n", "u", "l", "l">>

\* "errors": valid json, a string
BodyString == <<"\"", "e", "r", "r", "o", "r", "s", "\"">>

\* (empty): no body
BodyEmpty == <<>>

\* <html>: not json
BodyHtml == <<"<", "h", "t", "m", "l", ">">>

\* {"errors":[: json cut short
BodyCut == <<"{", "\"", "e", "r", "r", "o", "r", "s", "\"", ":", "[">>

\* not json, longer than DETAIL_LIMIT
BodyLong == [i \in 1..PadLen |-> IF i = 1 THEN "<" ELSE IF i % 2 = 0 THEN "x" ELSE "y"]

\* json without an errors member, longer than DETAIL_LIMIT
BodyLongData ==
    <<"{", "\"", "d", "\"", ":", "\"">> \o [i \in 1..PadLen |-> "z"] \o <<"\"", "}">>

Bodies ==
    {BodyData, BodyDataList, BodyErrors2, BodyErrors1,
     BodyErrorsEmpty, BodyErrorsNoMessage, BodyErrorsStrings, BodyErrorsNull,
     BodyErrorsIntMessage, BodyList, BodyNull, BodyString,
     BodyEmpty, BodyHtml, BodyCut,
     BodyLong, BodyLongData}

\* Retry-After header values the remote service is let to send with a 429.
RetryAfterHeaders ==
    {NoHeader, Header(<<"4", "5">>), Header(<<"0", "7">>), Header(<<"1", "2", "0">>),
     Header(<<"s", "o", "o", "n">>)}

Response(status_code, retry_after, text) ==
    [status_code |-> status_code, retry_after |-> retry_after, text |-> text]

StatusCodes == {200, 201, 304, 400, 403, 404, 500}

\* Every body with every status; 429 with every header; 401 with either.
Responses ==
    {Response(c, NoHeader, b) : c \in StatusCodes \cup {401}, b \in Bodies}
    \cup {Response(429, h, b) : h \in RetryAfterHeaders, b \in {BodyData, BodyHtml}}
    \cup {Response(401, Header(<<"4", "5">>), b) : b \in {BodyErrors1, BodyLong}}

\* What one HTTP attempt meets: requests.Timeout, requests.ConnectionError,
\* or a response.
NoResponse == Response(0, NoHeader, <<>>)

Timeout == [kind |-> "Timeout", resp |-> NoResponse]

ConnectionError == [kind |-> "ConnectionError", resp |-> NoResponse]

Received(resp) == [kind |-> "Response", resp |-> resp]

\* The forced sequences of outcomes: up to MaxFailures network failures and
\* then a response, or MaxFailures network failures, or an error reply with
\* something after it.
FailureSeqs(n) == UNION {[1..k -> {Timeout, ConnectionError}] : k \in 0..n}

\* Replies that would follow if an error reply were retried.
ErrorReplies ==
    {Response(c, NoHeader, BodyErrors1) : c \in {401, 404, 429, 500}}

Scripts ==
    {f \o <<Received(r)>> : f \in FailureSeqs(MaxFailures), r \in Responses}
    \cup [1..MaxFailures -> {Timeout, ConnectionError}]
    \cup {f \o <<Received(e), o>> :
            f \in FailureSeqs(1), e \in ErrorReplies,
            o \in {Timeout, Received(Response(200, NoHeader, BodyData))}}

\* ------------------------------------------------------- values of the client
\* bool(v) of a python value
Truthy(v) ==
    CASE v.t = "none" -> FALSE
      [] v.t = "bool" -> v.b
      [] v.t = "int"  -> v.n # 0
      [] v.t = "str"  -> Len(v.s) > 0
      [] v.t = "list" -> Len(v.items) > 0
      [] v.t = "dict" -> Len(v.items) > 0

\* a variant that prefers the second operand
PyOrSecond(a, b) == IF Truthy(b) THEN b ELSE a

\* a or b
PyOr(a, b) == IF Truthy(a) THEN a ELSE b

\* The keys of request bodies and of the records of the service.
KEY ==
    [gid |-> <<"g", "i", "d">>,
     name |-> <<"n", "a", "m", "e">>,
     data |-> <<"d", "a", "t", "a">>,
     projects |-> <<"p", "r", "o", "j", "e", "c", "t", "s">>,
     workspace |-> <<"w", "o", "r", "k", "s", "p", "a", "c", "e">>,
     assignee |-> <<"a", "s", "s", "i", "g", "n", "e", "e">>,
     due_on |-> <<"d", "u", "e", "_", "o", "n">>,
     notes |-> <<"n", "o", "t", "e", "s">>,
     completed |-> <<"c", "o", "m", "p", "l", "e", "t", "e", "d">>,
     task |-> <<"t", "a", "s", "k">>,
     text |-> <<"t", "e", "x", "t">>,
     dependencies |-> <<"d", "e", "p", "e", "n", "d", "e", "n", "c", "i", "e", "s">>,
     resource_subtype |-> <<"r", "e", "s", "o", "u", "r", "c", "e", "_", "s", "u", "b", "t", "y", "p", "e">>,
     comment_added |-> <<"c", "o", "m", "m", "e", "n", "t", "_", "a", "d", "d", "e", "d">>]

\* result.get(key, default) on what _request returned: a value that is not a
\* dict has no get
ResultGet(result_value, key, default) ==
    IF result_value.t # "dict" THEN Raise(ForeignError("AttributeError"))
    ELSE IF DictHas(result_value, key) THEN Return(DictGet(result_value, key))
    ELSE Return(default)

\* task.get("gid") of the record create_task got back: None when it has none
TaskGid(task) ==
    IF task.t = "dict" /\ DictHas(task, KEY.gid) THEN DictGet(task, KEY.gid) ELSE PyNone

\* A logical request, as the arguments of _request: params and json_data are
\* PyNone when they are not passed.
Request(method, endpoint, params, json_data) ==
    [method |-> method, endpoint |-> endpoint, params |-> params,
     json_data |-> json_data]

NoRequest == Request("", <<>>, PyNone, PyNone)

\* {"data": data}
DataBody(data) == PyDict(<<<<KEY.data, data>>>>)

\* str(b).lower()
LowerBool(b) == IF b THEN PyStr(<<"true">>) ELSE PyStr(<<"false">>)

\* ValueError(message), raised by the argument checks of the operations
ValueError(message) ==
    [type |-> "ValueError", status_code |-> NoAttr, message |-> message]

\* AsanaError(message), the base class
AsanaError(message) ==
    [type |-> "AsanaError", status_code |-> NoAttr, message |-> message]

\* isinstance(e, AsanaError)
IsAsanaError(e) == e.type \in {"AsanaError", "AsanaAPIError", "AsanaAuthError"}

\* One invocation of an operation of the client: op names the method, the
\* other fields are its arguments (PyNone where the caller passes nothing).
NoArgs ==
    [op |-> "none", task_gid |-> PyNone, name |-> PyNone, workspace |-> PyNone,
     project |-> PyNone, section |-> PyNone, assignee |-> PyNone,
     due_on |-> PyNone, notes |-> PyNone, completed |-> PyNone, text |-> PyNone,
     depends_on_gid |-> PyNone]

\* if cond: d[k] = v
PutIf(cond, items, k, v) == IF cond THEN DictPut(items, k, v) ELSE items

\* The argument the operation passes to _get_workspace, NoAttr when it does
\* not call it.
WorkspaceArg(i) ==
    CASE i.op \in {"get_projects", "search_tasks"} -> i.workspace
      [] i.op = "get_tasks" /\ ~Truthy(i.project) /\ ~Truthy(i.section)
            /\ Truthy(i.assignee) -> i.workspace
      [] i.op = "create_task" /\ ~Truthy(i.project) ->
            IF Truthy(i.workspace) THEN i.workspace ELSE PyNone
      [] OTHER -> NoAttr

CallsGetWorkspace(i) == WorkspaceArg(i) # NoAttr

\* a variant that does not look at the stored default
GetWorkspaceNowUncached(explicit, cached) ==
    IF Truthy(explicit) THEN explicit ELSE NoAttr

\* a variant that prefers the stored default to the argument
GetWorkspaceNowStoredFirst(explicit, cached) ==
    IF Truthy(cached) THEN cached
    ELSE IF Truthy(explicit) THEN explicit
    ELSE NoAttr

\* _get_workspace(workspace) up to the point where it would list the
\* workspaces: the value it returns at once, or NoAttr
GetWorkspaceNow(explicit, cached) ==
    IF Truthy(explicit) THEN explicit
    ELSE IF Truthy(cached) THEN cached
    ELSE NoAttr

\* a variant that leaves the project out
CreateDataNoProject(i, ws) ==
    LET d1 == <<<<KEY.name, i.name>>>>
        d3 == PutIf(Truthy(i.assignee), d1, KEY.assignee, i.assignee)
        d4 == PutIf(Truthy(i.due_on), d3, KEY.due_on, i.due_on)
        d5 == PutIf(Truthy(i.notes), d4, KEY.notes, i.notes)
    IN  PyDict(PutIf(~Truthy(i.project), d5, KEY.workspace, ws))

\* data of create_task; ws is what _get_workspace returned
CreateData(i, ws) ==
    LET d1 == <<<<KEY.name, i.name>>>>
        d2 == PutIf(Truthy(i.project), d1, KEY.projects, PyList(<<i.project>>))
        d3 == PutIf(Truthy(i.assignee), d2, KEY.assignee, i.assignee)
        d4 == PutIf(Truthy(i.due_on), d3, KEY.due_on, i.due_on)
        d5 == PutIf(Truthy(i.notes), d4, KEY.notes, i.notes)
    IN  PyDict(PutIf(~Truthy(i.project), d5, KEY.workspace, ws))

\* data of update_task
UpdateData(i) ==
    LET d1 == PutIf(i.name # PyNone, <<>>, KEY.name, i.name)
        d2 == PutIf(i.completed # PyNone, d1, KEY.completed, i.completed)
        d3 == PutIf(i.assignee # PyNone, d2, KEY.assignee, i.assignee)
        d4 == PutIf(i.due_on # PyNone, d3, KEY.due_on, i.due_on)
    IN  PyDict(PutIf(i.notes # PyNone, d4, KEY.notes, i.notes))

\* data of create_subtask
SubtaskData(i) ==
    LET d1 == <<<<KEY.name, i.name>>>>
        d2 == PutIf(Truthy(i.assignee), d1, KEY.assignee, i.assignee)
        d3 == PutIf(Truthy(i.due_on), d2, KEY.due_on, i.due_on)
    IN  PyDict(PutIf(Truthy(i.notes), d3, KEY.notes, i.notes))

\* a variant of update_task without the check of an empty update
ArgumentErrorNoUpdateCheck(i) ==
    IF i.op = "get_tasks" /\ ~Truthy(i.project) /\ ~Truthy(i.section)
          /\ ~Truthy(i.assignee)
    THEN ValueError(<<"Must provide project, section, or assignee">>)
    ELSE NoAttr

\* The ValueError an operation raises on its arguments before it requests
\* anything, NoAttr when it raises none.
ArgumentError(i) ==
    IF i.op = "get_tasks" /\ ~Truthy(i.project) /\ ~Truthy(i.section)
          /\ ~Truthy(i.assignee)
    THEN ValueError(<<"Must provide project, section, or assignee">>)
    ELSE IF i.op = "update_task" /\ ~Truthy(UpdateData(i))
    THEN ValueError(<<"No updates provided">>)
    ELSE NoAttr

\* the text of an argument inside an f-string
Fmt(v) == IF v.t = "str" THEN v.s ELSE PyRepr(v)

\* params of get_tasks
GetTasksParams(i, ws) ==
    LET p1 == <<<<<<"opt_fields">>,
                  PyStr(<<"name,due_on,completed,assignee.name,projects.name">>)>>,
                <<<<"limit">>, PyStr(FormatInt(100))>>>>
        byAssignee == ~Truthy(i.project) /\ ~Truthy(i.section)
        p2 == PutIf(byAssignee, p1, <<"assignee">>, i.assignee)
        p3 == PutIf(byAssignee, p2, <<"workspace">>, ws)
    IN  PyDict(PutIf(i.completed # PyNone, p3, <<"completed_since">>,
                     IF ~Truthy(i.completed) THEN PyStr(<<"now">>) ELSE PyNone))

\* params of search_tasks
SearchParams(i) ==
    LET p1 == <<<<<<"opt_fields">>,
                  PyStr(<<"name,due_on,completed,assignee.name,projects.name">>)>>,
                <<<<"limit">>, PyStr(FormatInt(100))>>,
                <<<<"sort_by">>, PyStr(<<"modified_at">>)>>,
                <<<<"sort_ascending">>, PyStr(<<"false">>)>>>>
        p2 == PutIf(Truthy(i.text), p1, <<"text">>, i.text)
        p3 == PutIf(Truthy(i.assignee), p2, <<"assignee.any">>, i.assignee)
        p4 == PutIf(Truthy(i.project), p3, <<"projects.any">>, i.project)
    IN  PyDict(PutIf(i.completed # PyNone, p4, <<"completed">>,
                     IF i.completed # PyNone THEN LowerBool(i.completed.b)
                     ELSE PyNone))

OptFields(fields) == PyDict(<<<<<<"opt_fields">>, PyStr(<<fields>>)>>>>)

\* The request list_workspaces makes, for a caller or for _get_workspace.
ListWorkspacesRequest ==
    Request("GET", <<"workspaces">>, OptFields("name,is_organization"), PyNone)

\* a variant that removes the task it has just created
RemoveCreatedRequest(i, task) ==
    Request("DELETE", <<"tasks/">> \o Fmt(DictGet(task, KEY.gid)), PyNone, PyNone)

\* The request create_task makes for the section, once the task exists.
AddToSectionRequest(i, task) ==
    Request("POST", <<"sections/">> \o Fmt(i.section) \o <<"/addTask">>, PyNone,
            DataBody(PyDict(<<<<KEY.task, DictGet(task, KEY.gid)>>>>)))

\* The request the operation makes for itself; ws is what _get_workspace
\* returned to it, if it called it.
OwnRequest(i, ws) ==
    CASE i.op = "list_workspaces" -> ListWorkspacesRequest
      [] i.op = "get_projects" ->
            Request("GET", <<"projects">>,
                    PyDict(<<<<<<"workspace">>, ws>>,
                             <<<<"archived">>, LowerBool(FALSE)>>,
                             <<<<"opt_fields">>,
                               PyStr(<<"name,owner.name,due_on,current_status.color">>)>>,
                             <<<<"limit">>, PyStr(FormatInt(50))>>>>),
                    PyNone)
      [] i.op = "get_project_sections" ->
            Request("GET", <<"projects/">> \o Fmt(i.project) \o <<"/sections">>,
                    OptFields("name"), PyNone)
      [] i.op = "get_task" ->
            Request("GET", <<"tasks/">> \o Fmt(i.task_gid),
                    OptFields("name,notes,due_on,completed,assignee.name,projects.name,custom_fields.name,custom_fields.display_value,tags.name,memberships.section.name,dependencies,dependents"), PyNone)
      [] i.op = "get_tasks" ->
            Request("GET",
                    IF Truthy(i.project)
                    THEN <<"projects/">> \o Fmt(i.project) \o <<"/tasks">>
                    ELSE IF Truthy(i.section)
                    THEN <<"sections/">> \o Fmt(i.section) \o <<"/tasks">>
                    ELSE <<"tasks">>,
                    GetTasksParams(i, ws), PyNone)
      [] i.op = "search_tasks" ->
            Request("GET", <<"workspaces/">> \o Fmt(ws) \o <<"/tasks/search">>,
                    SearchParams(i), PyNone)
      [] i.op = "create_task" ->
            Request("POST", <<"tasks">>, PyNone, DataBody(CreateData(i, ws)))
      [] i.op = "update_task" ->
            Request("PUT", <<"tasks/">> \o Fmt(i.task_gid), PyNone,
                    DataBody(UpdateData(i)))
      [] i.op = "delete_task" ->
            Request("DELETE", <<"tasks/">> \o Fmt(i.task_gid), PyNone, PyNone)
      [] i.op = "get_subtasks" ->
            Request("GET", <<"tasks/">> \o Fmt(i.task_gid) \o <<"/subtasks">>,
                    OptFields("name,completed,due_on,assignee.name"), PyNone)
      [] i.op = "create_subtask" ->
            Request("POST", <<"tasks/">> \o Fmt(i.task_gid) \o <<"/subtasks">>,
                    PyNone, DataBody(SubtaskData(i)))
      [] i.op = "get_comments" ->
            Request("GET", <<"tasks/">> \o Fmt(i.task_gid) \o <<"/stories">>,
                    PyDict(<<<<<<"opt_fields">>,
                               PyStr(<<"created_at,created_by.name,text,type,resource_subtype">>)>>,
                             <<<<"limit">>, PyStr(FormatInt(50))>>>>),
                    PyNone)
      [] i.op = "add_comment" ->
            Request("POST", <<"tasks/">> \o Fmt(i.task_gid) \o <<"/stories">>,
                    PyNone, DataBody(PyDict(<<<<KEY.text, i.text>>>>)))
      [] i.op = "get_dependencies" ->
            Request("GET", <<"tasks/">> \o Fmt(i.task_gid) \o <<"/dependencies">>,
                    OptFields("name,completed"), PyNone)
      [] i.op = "add_dependency" ->
            Request("POST", <<"tasks/">> \o Fmt(i.task_gid) \o <<"/addDependencies">>,
                    PyNone,
                    DataBody(PyDict(<<<<KEY.dependencies, PyList(<<i.depends_on_gid>>)>>>>)))
      [] i.op = "get_me" ->
            Request("GET", <<"users/me">>,
                    OptFields("name,email,workspaces.name"), PyNone)

\* The operations that return a record, the others that read return a list.
RecordOps ==
    {"get_task", "create_task", "update_task", "create_subtask", "add_comment",
     "add_dependency", "get_me"}

\* [s for s in stories if s.get("resource_subtype") == "comment_added"]
CommentsOf(stories) ==
    IF stories.t = "list"
    THEN IF \E k \in 1..Len(stories.items) : stories.items[k].t # "dict"
         THEN Raise(ForeignError("AttributeError"))
         ELSE Return(PyList(SelectSeq(stories.items,
                  LAMBDA s : DictHas(s, KEY.resource_subtype)
                             /\ DictGet(s, KEY.resource_subtype) = PyStr(KEY.comment_added))))
    ELSE IF stories.t \in {"dict", "str"}
    THEN IF Truthy(stories) THEN Raise(ForeignError("AttributeError"))
         ELSE Return(PyList(<<>>))
    ELSE Raise(ForeignError("TypeError"))

\* a variant that hands a collection back last record first
OutcomeReversed(i, result_value) ==
    LET got == ResultGet(result_value, KEY.data,
                         IF i.op \in RecordOps THEN PyDict(<<>>) ELSE PyList(<<>>))
        out == IF i.op = "delete_task" THEN Return(PyBool(TRUE))
               ELSE IF i.op = "get_comments" /\ ~got.raised THEN CommentsOf(got.value)
               ELSE got
    IN  IF ~out.raised /\ out.value.t = "list"
        THEN Return(PyList([k \in 1..Len(out.value.items) |->
                               out.value.items[Len(out.value.items) + 1 - k]]))
        ELSE out

\* What the operation makes of the value its own request returned.
Outcome(i, result_value) ==
    LET got == ResultGet(result_value, KEY.data,
                         IF i.op \in RecordOps THEN PyDict(<<>>) ELSE PyList(<<>>))
    IN  IF i.op = "delete_task" THEN Return(PyBool(TRUE))
        ELSE IF i.op = "get_comments" /\ ~got.raised THEN CommentsOf(got.value)
        ELSE got

\* ------------------------------------------ the service behind the requests
RECURSIVE JsonDumps(_)
\* The service's encoding of a value as JSON text.
JsonDumps(v) ==
    CASE v.t = "none" -> <<"n", "u", "l", "l">>
      [] v.t = "bool" -> IF v.b THEN <<"t", "r", "u", "e">>
                         ELSE <<"f", "a", "l", "s", "e">>
      [] v.t = "int"  -> FormatInt(v.n)
      [] v.t = "str"  -> <<"\"">> \o v.s \o <<"\"">>
      [] v.t = "list" ->
            <<"[">> \o JoinText([k \in 1..Len(v.items) |-> JsonDumps(v.items[k])],
                               <<",">>) \o <<"]">>
      [] v.t = "dict" ->
            <<"{">> \o JoinText([k \in 1..Len(v.items) |->
                                    <<"\"">> \o v.items[k][1] \o <<"\"", ":">>
                                       \o JsonDumps(v.items[k][2])],
                               <<",", " ">>) \o <<"}">>

\* A record of the service with a gid and a name.
Named(gid, name) == PyDict(<<<<KEY.gid, PyStr(gid)>>, <<KEY.name, PyStr(name)>>>>)

\* The workspaces of the user of the token: none, or two of them.
WorkspaceLists == {<<>>, <<Named(<<"1">>, <<"A">>), Named(<<"2">>, <<"B">>)>>}

\* The service: the workspaces of the user, the tasks it stores, which task
\* was put in which section, and how many gids it has issued.
Service(workspaces, tasks, memberships, issued) ==
    [workspaces |-> workspaces, tasks |-> tasks, memberships |-> memberships,
     issued |-> issued]

\* The sections the service knows.
SectionGids == {<<"6">>}

\* The trailing literal of an endpoint with a gid in it, "" when it has none.
Suffix(endpoint) ==
    IF Len(endpoint) > 1
       /\ endpoint[Len(endpoint)] \in
             {"/sections", "/tasks", "/tasks/search", "/addTask", "/subtasks",
              "/stories", "/dependencies", "/addDependencies"}
    THEN endpoint[Len(endpoint)]
    ELSE ""

\* The gid inside an endpoint.
PathGid(endpoint) ==
    SubSeq(endpoint, 2, Len(endpoint) - (IF Suffix(endpoint) = "" THEN 0 ELSE 1))

\* The stored task with this gid, as a set of positions.
TaskAt(svc, gid) ==
    {k \in 1..Len(svc.tasks) : DictGet(svc.tasks[k], KEY.gid) = PyStr(gid)}

\* The gid the service gives the next task it creates.
NewGid(svc) == FormatInt(3 + svc.issued)

RECURSIVE Merge(_, _)
\* items updated with every pair of changes
Merge(items, changes) ==
    IF Len(changes) = 0 THEN items
    ELSE Merge(DictPut(items, changes[1][1], changes[1][2]), Tail(changes))

\* The record made of the data of a creating request.
Created(svc, data) ==
    PyDict(Merge(<<<<KEY.gid, PyStr(NewGid(svc))>>>>, data.items))

\* The stories of any task: a comment, a system story, a comment.
Stories ==
    PyList(<<PyDict(<<<<KEY.gid, PyStr(<<"8">>)>>,
                      <<KEY.resource_subtype, PyStr(KEY.comment_added)>>,
                      <<KEY.text, PyStr(<<"h", "i">>)>>>>),
             PyDict(<<<<KEY.gid, PyStr(<<"9">>)>>,
                      <<KEY.resource_subtype, PyStr(<<"a", "s", "s", "i", "g", "n", "e", "d">>)>>>>),
             PyDict(<<<<KEY.gid, PyStr(<<"7">>)>>,
                      <<KEY.resource_subtype, PyStr(KEY.comment_added)>>,
                      <<KEY.text, PyStr(<<"o", "k">>)>>>>)>>)

NotFound == Response(404, NoHeader, BodyErrors1)

Success(status_code, data) ==
    Response(status_code, NoHeader, JsonDumps(DataBody(data)))

\* Is the request about a task or a section the service does not have?
Missing(r, svc) ==
    LET head == r.endpoint[1]
        tail == Suffix(r.endpoint)
    IN  \/ /\ head = "tasks/"
           /\ tail \in {"", "/subtasks"}
           /\ TaskAt(svc, PathGid(r.endpoint)) = {}
        \/ /\ tail = "/addTask"
           /\ \/ PathGid(r.endpoint) \notin SectionGids
              \/ \A k \in 1..Len(svc.tasks) :
                    DictGet(svc.tasks[k], KEY.gid)
                       # DictGet(DictGet(r.json_data, KEY.data), KEY.task)

\* The reply of the service to a request that reaches it.
ServiceReply(r, svc) ==
    LET head == r.endpoint[1]
        tail == Suffix(r.endpoint)
        gid  == PathGid(r.endpoint)
    IN  IF Missing(r, svc) THEN NotFound
        ELSE IF r.method = "GET"
        THEN CASE head = "workspaces" -> Success(200, PyList(svc.workspaces))
               [] head = "projects" ->
                     Success(200, PyList(<<Named(<<"5">>, <<"P">>)>>))
               [] head = "users/me" -> Success(200, Named(<<"0">>, <<"U">>))
               [] tail = "/sections" ->
                     Success(200, PyList(<<Named(<<"6">>, <<"S">>)>>))
               [] tail = "/stories" -> Success(200, Stories)
               [] tail \in {"/subtasks", "/dependencies"} ->
                     Success(200, PyList(<<>>))
               [] head = "tasks/" /\ tail = "" ->
                     Success(200, svc.tasks[CHOOSE k \in TaskAt(svc, gid) : TRUE])
               [] OTHER -> Success(200, PyList(svc.tasks))
        ELSE IF r.method = "POST"
        THEN CASE head = "tasks" \/ tail = "/subtasks" ->
                     Success(201, Created(svc, DictGet(r.json_data, KEY.data)))
               [] tail = "/stories" ->
                     Success(201, Created(svc, DictGet(r.json_data, KEY.data)))
               [] OTHER -> Success(200, PyDict(<<>>))
        ELSE IF r.method = "PUT"
        THEN Success(200,
                PyDict(Merge(svc.tasks[CHOOSE k \in TaskAt(svc, gid) : TRUE].items,
                             DictGet(r.json_data, KEY.data).items)))
        ELSE Success(200, PyDict(<<>>))

\* The service after it served a request.
Served(r, svc) ==
    LET head == r.endpoint[1]
        tail == Suffix(r.endpoint)
        gid  == PathGid(r.endpoint)
    IN  IF Missing(r, svc) \/ r.method = "GET" THEN svc
        ELSE IF r.method = "POST" /\ (head = "tasks" \/ tail = "/subtasks")
        THEN [svc EXCEPT !.tasks =
                 Append(@, Created(svc, DictGet(r.json_data, KEY.data))),
                              !.issued = @ + 1]
        ELSE IF r.method = "POST" /\ tail = "/addTask"
        THEN [svc EXCEPT !.memberships =
                 Append(@, <<gid, DictGet(DictGet(r.json_data, KEY.data), KEY.task)>>)]
        ELSE IF r.method = "PUT"
        THEN [svc EXCEPT !.tasks =
                 [k \in 1..Len(@) |->
                     IF k \in TaskAt(svc, gid)
                     THEN PyDict(Merge(@[k].items, DictGet(r.json_data, KEY.data).items))
                     ELSE @[k]]]
        ELSE IF r.method = "DELETE"
        THEN [svc EXCEPT !.tasks =
                 SelectSeq(@, LAMBDA t : DictGet(t, KEY.gid) # PyStr(gid))]
        ELSE svc

\* What the attempts of one logical request meet: the reply at once or after
\* a timeout, an error reply, a rejected token after a connection error, or
\* network failures until the retries are used up.
OutcomesOf(r, svc) ==
    {<<Received(ServiceReply(r, svc))>>,
     <<Timeout, Received(ServiceReply(r, svc))>>,
     <<Received(Response(500, NoHeader, BodyErrors1))>>,
     <<ConnectionError, Received(Response(401, NoHeader, BodyErrors1))>>,
     [k \in 1..(MAX_RETRIES + 1) |-> Timeout]}

\* -------------------------------------------------------------------- state
VARIABLES
    pc,        \* "idle", "calling", "returned" or "raised": where _request is
    script,    \* what the attempts of this logical call will meet, in order
    attempts,  \* HTTP attempts issued so far by this logical call
    retries,   \* the retries parameter of the innermost _request frame
    result,    \* what the outermost _request frame returned or raised
    self_token,      \* self._token
    self_workspace,  \* self._workspace
    ctor,      \* the arguments and environment the constructor ran with
    mode,      \* "none", "library" or "cli": who drives the client
    cpc,       \* where the client is: "new", "failed", "idle", "resolving",
               \* "requesting", "sectioning", "done" or "exited"
    inv,       \* the invocation in progress, or the last one
    calls,     \* the logical requests this invocation has made, in order
    wire,      \* the last HTTP attempt as it left the client
    service,   \* the state of the service
    ws0,       \* self._workspace as the invocation found it
    created,   \* the create_task call that returned just before the invocation
    resolved,  \* how often _get_workspace has set self._workspace
    ops,       \* invocations begun on this client
    outcome,   \* what the last invocation returned or raised
    exit,      \* how the process of the command line ended
    callers,   \* the concurrent callers of _get_workspace, each with its locals
    policy,    \* a run of enforce-policy.py
    activity,  \* a run of log-activity.py
    mail,      \* a call of get_needs_reply of needs_reply.py
    registry   \* a run of register_tools of register_system_tools.py

\* the variables of _request
rvars == <<pc, script, attempts, retries, result>>

\* the variables of the client around it
cvars ==
    <<self_token, self_workspace, ctor, mode, cpc, inv, calls, wire, service,
      ws0, created, resolved, ops, outcome, exit>>

\* the variables of the other programs and of the concurrent callers
others == <<callers, policy, activity, mail, registry>>

vars == <<rvars, cvars, others>>

NoResult == Return(PyNone)

\* The constructor's inputs: its two arguments and the two variables of the
\* environment.
Inputs(token, env_token, workspace, env_workspace) ==
    [token |-> token, env_token |-> env_token, workspace |-> workspace,
     env_workspace |-> env_workspace]

NoInputs == Inputs(PyNone, PyNone, PyNone, PyNone)

\* An HTTP attempt as sent: the request and the Authorization header.
Sent(r, authorization) == [request |-> r, authorization |-> authorization]

NoWire == Sent(NoRequest, <<>>)

\* A call of create_task that returned: its arguments and the task.
CreateCall(args, task) == [args |-> args, task |-> task]

NoCreated == CreateCall(NoArgs, PyNone)

\* The process has not ended.
Running == [code |-> -1, by |-> "running"]

Exited(code, by) == [code |-> code, by |-> by]

\* No hook runs.
NoProcess == [pc |-> "none", exit |-> Running]

\* The client before its construction.
ClientInit ==
    /\ pc = "idle"
    /\ script = <<>>
    /\ attempts = 0
    /\ retries = MAX_RETRIES
    /\ result = NoResult
    /\ self_token = PyNone
    /\ self_workspace = PyNone
    /\ ctor = NoInputs
    /\ mode = "none"
    /\ cpc = "new"
    /\ inv = NoArgs
    /\ calls = <<>>
    /\ wire = NoWire
    /\ service = Service(<<>>, <<>>, <<>>, 0)
    /\ ws0 = PyNone
    /\ created = NoCreated
    /\ resolved = 0
    /\ ops = 0
    /\ outcome = NoResult
    /\ exit = Running

\* Nothing but the client runs.
OthersIdle ==
    /\ callers = <<>>
    /\ policy = NoProcess
    /\ activity = NoProcess
    /\ mail = NoProcess
    /\ registry = NoProcess

Init ==
    /\ ClientInit
    /\ OthersIdle

\* a caller invokes _request(method, endpoint, ...) with the default counter
Call ==
    /\ pc = "idle"
    /\ \E sc \in Scripts : script' = sc
    /\ pc' = "calling"
    /\ retries' = MAX_RETRIES
    /\ attempts' = 0
    /\ UNCHANGED result

\* a variant with the comparison turned round
MayRetryInverted(r) == r < 0

\* a variant that retries once more with the counter at 0
MayRetryInclusive(r) == r >= 0

\* lines 137 and 142
MayRetry(r) == r > 0

\* a variant whose recursive call passes the counter on undiminished
NetworkFailureKeepingCounter(kind, error) ==
    /\ pc = "calling"
    /\ attempts < Len(script)
    /\ script[attempts + 1].kind = kind
    /\ attempts' = attempts + 1
    /\ IF MayRetry(retries)
       THEN UNCHANGED <<pc, result, retries>>
       ELSE /\ pc' = "raised"
            /\ result' = Raise(error)
            /\ UNCHANGED retries
    /\ UNCHANGED script

\* lines 136-144: the attempt fails below HTTP; error is what is raised when
\* the counter is used up
NetworkFailure(kind, error) ==
    /\ pc = "calling"
    /\ attempts < Len(script)
    /\ script[attempts + 1].kind = kind
    /\ attempts' = attempts + 1
    /\ IF MayRetry(retries)
       THEN /\ retries' = retries - 1
            /\ UNCHANGED <<pc, result>>
       ELSE /\ pc' = "raised"
            /\ result' = Raise(error)
            /\ UNCHANGED retries
    /\ UNCHANGED script

AttemptTimeout == NetworkFailure("Timeout", AsanaAPIError(TimeoutMessage, PyNone))

AttemptConnectionError ==
    NetworkFailure("ConnectionError", AsanaAPIError(ConnectionMessage, PyNone))

\* a variant that treats a 5xx reply like a network failure
AttemptResponseRetrying5xx ==
    /\ pc = "calling"
    /\ attempts < Len(script)
    /\ script[attempts + 1].kind = "Response"
    /\ attempts' = attempts + 1
    /\ IF script[attempts + 1].resp.status_code >= 500 /\ MayRetry(retries)
       THEN /\ retries' = retries - 1
            /\ UNCHANGED <<pc, result>>
       ELSE /\ result' = HandleResponse(script[attempts + 1].resp)
            /\ pc' = IF result'.raised THEN "raised" ELSE "returned"
            /\ UNCHANGED retries
    /\ UNCHANGED script

\* lines 105-134: the attempt gets a response
AttemptResponse ==
    /\ pc = "calling"
    /\ attempts < Len(script)
    /\ script[attempts + 1].kind = "Response"
    /\ attempts' = attempts + 1
    /\ result' = HandleResponse(script[attempts + 1].resp)
    /\ pc' = IF result'.raised THEN "raised" ELSE "returned"
    /\ UNCHANGED <<script, retries>>

\* one HTTP attempt of the call in flight
Attempt == AttemptTimeout \/ AttemptConnectionError \/ AttemptResponse

\* _request on its own: the client around it stays as it is
Next == (Call \/ Attempt) /\ UNCHANGED cvars /\ UNCHANGED others

Spec == Init /\ [][Next]_vars

\* -------------------------------------------------------- the client at work
\* The constructor inputs a caller is let to use.
ConstructorInputs ==
    {Inputs(PyNone, PyNone, PyNone, PyNone),
     Inputs(PyStr(<<>>), PyNone, PyNone, PyStr(<<"8">>)),
     Inputs(PyNone, PyStr(<<"E">>), PyNone, PyNone),
     Inputs(PyStr(<<"T">>), PyStr(<<"E">>), PyNone, PyStr(<<"8">>)),
     Inputs(PyStr(<<"T">>), PyNone, PyStr(<<"9">>), PyStr(<<"8">>)),
     Inputs(PyStr(<<>>), PyStr(<<"E">>), PyStr(<<>>), PyNone)}

\* lines 80-90: the body of __init__
InitClient(inputs) ==
    /\ self_token' = PyOr(inputs.token, inputs.env_token)
    /\ self_workspace' = PyOr(inputs.workspace, inputs.env_workspace)
    /\ ctor' = inputs
    /\ IF ~Truthy(self_token')
       THEN /\ cpc' = "failed"
            /\ outcome' = Raise(AsanaAuthError(
                  <<"No Asana token provided.\n",
                    "Set ASANA_ACCESS_TOKEN environment variable or pass token to constructor.\n",
                    "Get a Personal Access Token at: https://app.asana.com/0/my-apps">>))
       ELSE /\ cpc' = "idle"
            /\ UNCHANGED outcome

\* a program constructs AsanaClient(token, workspace); the service is as it
\* happens to be
Construct ==
    /\ cpc = "new"
    /\ \E inputs \in ConstructorInputs : InitClient(inputs)
    /\ \E w \in WorkspaceLists : service' = Service(w, <<>>, <<>>, 0)
    /\ mode' = "library"
    /\ UNCHANGED <<rvars, inv, calls, wire, ws0, created, resolved, ops, exit>>

\* _request is entered for the logical request r; log holds the requests the
\* invocation made before
Invoke(r, log) ==
    /\ calls' = Append(log, r)
    /\ pc' = "calling"
    /\ \E sc \in OutcomesOf(r, service) : script' = sc
    /\ attempts' = 0
    /\ retries' = MAX_RETRIES
    /\ result' = NoResult

\* the invocation ends with o
Finish(o) ==
    /\ cpc' = "done"
    /\ outcome' = o
    /\ pc' = "idle"
    /\ script' = <<>>
    /\ attempts' = 0
    /\ retries' = MAX_RETRIES
    /\ result' = NoResult

\* the logical request in flight
Current == calls[Len(calls)]

InFlight == cpc \in {"resolving", "requesting", "sectioning"}

S(text) == PyStr(text)

Op(name) == [NoArgs EXCEPT !.op = name]

OnTask(name) == [NoArgs EXCEPT !.op = name, !.task_gid = S(<<"3">>)]

CreateTask == [NoArgs EXCEPT !.op = "create_task", !.name = S(<<"X">>)]

\* The invocations a program is let to make.
Invocations ==
    {Op("list_workspaces"), Op("get_me"),
     Op("get_projects"),
     [Op("get_projects") EXCEPT !.workspace = S(<<"9">>)],
     [Op("get_project_sections") EXCEPT !.project = S(<<"5">>)],
     OnTask("get_task"),
     Op("get_tasks"),
     [Op("get_tasks") EXCEPT !.project = S(<<"5">>), !.completed = PyBool(FALSE)],
     [Op("get_tasks") EXCEPT !.section = S(<<"6">>), !.completed = PyBool(TRUE)],
     [Op("get_tasks") EXCEPT !.assignee = S(<<"m", "e">>)],
     [Op("get_tasks") EXCEPT !.assignee = S(<<"m", "e">>), !.workspace = S(<<"9">>)],
     [Op("search_tasks") EXCEPT !.text = S(<<"q">>)],
     [Op("search_tasks") EXCEPT !.workspace = S(<<"9">>), !.completed = PyBool(FALSE)],
     CreateTask,
     [CreateTask EXCEPT !.workspace = S(<<"9">>)],
     [CreateTask EXCEPT !.project = S(<<"5">>)],
     [CreateTask EXCEPT !.project = S(<<"5">>), !.workspace = S(<<"9">>),
                        !.section = S(<<"6">>)],
     [CreateTask EXCEPT !.section = S(<<"6">>), !.assignee = S(<<"m", "e">>),
                        !.due_on = S(<<"d">>), !.notes = S(<<"n">>)],
     [CreateTask EXCEPT !.project = S(<<"5">>), !.notes = S(<<>>)],
     OnTask("update_task"),
     [OnTask("update_task") EXCEPT !.completed = PyBool(FALSE)],
     [OnTask("update_task") EXCEPT !.name = S(<<"Y">>), !.notes = S(<<>>)],
     OnTask("delete_task"),
     OnTask("get_subtasks"),
     [OnTask("create_subtask") EXCEPT !.name = S(<<"Z">>), !.due_on = S(<<>>)],
     OnTask("get_comments"),
     [OnTask("add_comment") EXCEPT !.text = S(<<"h", "i">>)],
     OnTask("get_dependencies"),
     [OnTask("add_dependency") EXCEPT !.depends_on_gid = S(<<"4">>)]}

\* The invocations the handlers of the command line make, one per command.
Commands ==
    {Op("list_workspaces"),
     Op("get_projects"),
     OnTask("get_task"),
     Op("get_tasks"),
     [Op("get_tasks") EXCEPT !.project = S(<<"5">>), !.completed = PyBool(FALSE)],
     [Op("search_tasks") EXCEPT !.text = S(<<"q">>)],
     [Op("get_tasks") EXCEPT !.assignee = S(<<"m", "e">>)],
     CreateTask,
     [CreateTask EXCEPT !.project = S(<<"5">>), !.notes = S(<<"n">>)],
     OnTask("update_task"),
     [OnTask("update_task") EXCEPT !.completed = PyBool(TRUE)],
     [OnTask("add_comment") EXCEPT !.text = S(<<"h", "i">>)],
     OnTask("get_subtasks")}

\* lines 668-672: main() has parsed a command; it constructs the client from
\* the environment alone
Main ==
    /\ cpc = "new"
    /\ \E inputs \in {x \in ConstructorInputs : x.token = PyNone /\ x.workspace = PyNone} :
          InitClient(inputs)
    /\ \E w \in WorkspaceLists : service' = Service(w, <<>>, <<>>, 0)
    /\ \E c \in Commands : inv' = c
    /\ mode' = "cli"
    /\ UNCHANGED <<rvars, calls, wire, ws0, created, resolved, ops, exit>>

\* An operation of the client is invoked: by a program, or by the handler of
\* the command that main() parsed.  It checks its arguments, asks
\* _get_workspace where it needs a workspace, and makes its first request.
Begin ==
    /\ cpc \in {"idle", "done"}
    /\ ops < MaxOps
    /\ \E i \in Invocations \cup Commands :
          /\ mode = "cli" => i = inv /\ ops = 0
          /\ mode = "library" => i \in Invocations
          /\ inv' = i
          /\ IF ArgumentError(i) # NoAttr
             THEN /\ Finish(Raise(ArgumentError(i)))
                  /\ calls' = <<>>
             ELSE IF CallsGetWorkspace(i)
                     /\ GetWorkspaceNow(WorkspaceArg(i), self_workspace) = NoAttr
             THEN /\ Invoke(ListWorkspacesRequest, <<>>)
                  /\ cpc' = "resolving"
                  /\ outcome' = NoResult
             ELSE /\ Invoke(OwnRequest(i, GetWorkspaceNow(WorkspaceArg(i), self_workspace)),
                            <<>>)
                  /\ cpc' = "requesting"
                  /\ outcome' = NoResult
    /\ ops' = ops + 1
    /\ ws0' = self_workspace
    /\ created' = IF cpc = "done" /\ inv.op = "create_task" /\ ~outcome.raised
                  THEN CreateCall(inv, outcome.value)
                  ELSE NoCreated
    /\ wire' = NoWire
    /\ UNCHANGED <<self_token, self_workspace, ctor, mode, service, resolved, exit>>

\* a variant that sends the token under another scheme
AuthorizationBasic(token) == <<"Basic ">> \o Fmt(token)

\* line 101: the headers of an attempt
Authorization(token) == <<"Bearer ">> \o Fmt(token)

\* a variant in which nothing leaves the client
SendNothing ==
    /\ InFlight
    /\ UNCHANGED <<self_token, self_workspace, ctor, mode, cpc, inv, calls, ws0, created,
                   resolved, ops, outcome, exit, wire>>

\* lines 105-112: an attempt leaves the client
Send ==
    /\ InFlight
    /\ wire' = Sent(Current, Authorization(self_token))
    /\ UNCHANGED <<self_token, self_workspace, ctor, mode, cpc, inv, calls, ws0, created,
                   resolved, ops, outcome, exit>>

RequestTimeout == AttemptTimeout /\ Send /\ UNCHANGED service

RequestConnectionError == AttemptConnectionError /\ Send /\ UNCHANGED service

\* the attempt reaches the service, or something before it that answers
RequestResponse ==
    /\ AttemptResponse
    /\ Send
    /\ service' = IF script[attempts + 1].resp = ServiceReply(Current, service)
                  THEN Served(Current, service)
                  ELSE service

\* a variant that takes the last record
LastGid(workspaces) ==
    IF workspaces.t # "list" THEN Raise(ForeignError("KeyError"))
    ELSE IF Len(workspaces.items) = 0 THEN Raise(ForeignError("IndexError"))
    ELSE IF workspaces.items[Len(workspaces.items)].t # "dict"
    THEN Raise(ForeignError("TypeError"))
    ELSE IF ~DictHas(workspaces.items[Len(workspaces.items)], KEY.gid)
    THEN Raise(ForeignError("KeyError"))
    ELSE Return(DictGet(workspaces.items[Len(workspaces.items)], KEY.gid))

\* workspaces[0]["gid"]
FirstGid(workspaces) ==
    IF workspaces.t # "list" THEN Raise(ForeignError("KeyError"))
    ELSE IF Len(workspaces.items) = 0 THEN Raise(ForeignError("IndexError"))
    ELSE IF workspaces.items[1].t # "dict" THEN Raise(ForeignError("TypeError"))
    ELSE IF ~DictHas(workspaces.items[1], KEY.gid) THEN Raise(ForeignError("KeyError"))
    ELSE Return(DictGet(workspaces.items[1], KEY.gid))

\* a variant that goes on with an empty list
NoneListedSkipped(workspaces) == FALSE

\* line 155: if not workspaces
NoneListed(workspaces) == ~Truthy(workspaces)

\* lines 153-158 and what follows in the operation: list_workspaces has
\* returned to _get_workspace, or raised through it
GetWorkspace ==
    /\ cpc = "resolving"
    /\ pc \in {"returned", "raised"}
    /\ LET workspaces == IF result.raised THEN result
                         ELSE ResultGet(result.value, KEY.data, PyList(<<>>))
           gid == IF workspaces.raised THEN workspaces
                  ELSE IF NoneListed(workspaces.value)
                  THEN Raise(AsanaError(<<"No workspaces found for this user">>))
                  ELSE FirstGid(workspaces.value)
       IN  IF gid.raised
           THEN /\ Finish(gid)
                /\ UNCHANGED <<self_workspace, resolved, calls>>
           ELSE /\ self_workspace' = gid.value
                /\ resolved' = resolved + 1
                /\ Invoke(OwnRequest(inv, gid.value), calls)
                /\ cpc' = "requesting"
                /\ UNCHANGED outcome
    /\ UNCHANGED <<self_token, ctor, mode, inv, wire, service, ws0, created, ops, exit>>

\* The operation's own request has returned or raised: the operation returns
\* what it makes of the value, or create_task goes on to the section.
Complete ==
    /\ cpc = "requesting"
    /\ pc \in {"returned", "raised"}
    /\ LET task == IF result.raised THEN result ELSE Outcome(inv, result.value)
       IN  IF inv.op = "create_task" /\ ~task.raised /\ Truthy(inv.section)
           THEN IF task.value.t # "dict"
                THEN Finish(Raise(ForeignError("AttributeError"))) /\ UNCHANGED calls
                ELSE IF Truthy(TaskGid(task.value))
                THEN /\ Invoke(AddToSectionRequest(inv, task.value), calls)
                     /\ cpc' = "sectioning"
                     /\ outcome' = task
                ELSE Finish(task) /\ UNCHANGED calls
           ELSE Finish(task) /\ UNCHANGED calls
    /\ UNCHANGED <<self_token, self_workspace, ctor, mode, inv, wire, service, ws0, created,
                   resolved, ops, exit>>

\* lines 294-301: the request for the section has returned or raised
AddedToSection ==
    /\ cpc = "sectioning"
    /\ pc \in {"returned", "raised"}
    /\ Finish(IF result.raised THEN result ELSE outcome)
    /\ UNCHANGED <<self_token, self_workspace, ctor, mode, inv, calls, wire, service,
                   ws0, created, resolved, ops, exit>>

\* a variant that reports a caught error with the status of a usage error
ExitStatusUsage(o) ==
    IF ~o.raised THEN Exited(0, "return")
    ELSE IF IsAsanaError(o.error) THEN Exited(2, "caught")
    ELSE Exited(1, "traceback")

\* lines 670-675: how main() ends when the try block ended with o; an
\* exception it does not catch ends the interpreter with a traceback and
\* status 1
ExitStatus(o) ==
    IF ~o.raised THEN Exited(0, "return")
    ELSE IF IsAsanaError(o.error) THEN Exited(1, "caught")
    ELSE Exited(1, "traceback")

\* lines 670-677: the handler has returned or raised, or the constructor
\* raised; the output of the handler is taken to print
Exit ==
    /\ mode = "cli"
    /\ cpc \in {"done", "failed"}
    /\ exit' = ExitStatus(outcome)
    /\ cpc' = "exited"
    /\ UNCHANGED <<rvars, self_token, self_workspace, ctor, mode, inv, calls, wire,
                   service, ws0, created, resolved, ops, outcome>>

\* lines 675-676: the user interrupts the command while it waits
KeyboardInterrupt ==
    /\ mode = "cli"
    /\ InFlight
    /\ exit' = Exited(130, "interrupt")
    /\ cpc' = "exited"
    /\ UNCHANGED <<rvars, self_token, self_workspace, ctor, mode, inv, calls, wire,
                   service, ws0, created, resolved, ops, outcome>>

ClientNext ==
    \/ Construct /\ UNCHANGED others
    \/ Main /\ UNCHANGED others
    \/ Begin /\ UNCHANGED others
    \/ RequestTimeout /\ UNCHANGED others
    \/ RequestConnectionError /\ UNCHANGED others
    \/ RequestResponse /\ UNCHANGED others
    \/ GetWorkspace /\ UNCHANGED others
    \/ Complete /\ UNCHANGED others
    \/ AddedToSection /\ UNCHANGED others
    \/ Exit /\ UNCHANGED others
    \/ KeyboardInterrupt /\ UNCHANGED others

ClientSpec == Init /\ [][ClientNext]_vars

\* ------------------------------------- concurrent callers of _get_workspace
\* The threads that share one client.
Callers == 2

CallerIds == 1..Callers

\* A caller of _get_workspace(workspace): where it is, its argument, the local
\* `workspaces` (as list_workspaces returned or raised), whether it has called
\* list_workspaces, and what _get_workspace returned or raised to it.
Caller(workspace) ==
    [pc |-> "called", workspace |-> workspace, workspaces |-> NoResult,
     listed |-> FALSE, result |-> NoResult]

\* What a call of list_workspaces() can come to against the service: the
\* "data" of the reply, or the error _request raises when the network fails.
ListWorkspacesOutcomes(svc) ==
    LET got == HandleResponse(ServiceReply(ListWorkspacesRequest, svc))
    IN  {IF got.raised THEN got ELSE Outcome(Op("list_workspaces"), got.value),
         Raise(AsanaAPIError(TimeoutMessage, PyNone)),
         Raise(AsanaAPIError(ConnectionMessage, PyNone))}

\* A client with a token and no default workspace is shared by the callers,
\* each about to call _get_workspace, with no argument or with "9".
RaceInit ==
    /\ pc = "idle"
    /\ script = <<>>
    /\ attempts = 0
    /\ retries = MAX_RETRIES
    /\ result = NoResult
    /\ self_token = PyStr(<<"T">>)
    /\ self_workspace = PyNone
    /\ ctor = Inputs(PyStr(<<"T">>), PyNone, PyNone, PyNone)
    /\ mode = "library"
    /\ cpc = "idle"
    /\ inv = NoArgs
    /\ calls = <<>>
    /\ wire = NoWire
    /\ \E ws \in WorkspaceLists : service = Service(ws, <<>>, <<>>, 0)
    /\ ws0 = PyNone
    /\ created = NoCreated
    /\ resolved = 0
    /\ ops = 0
    /\ outcome = NoResult
    /\ exit = Running
    /\ policy = NoProcess
    /\ activity = NoProcess
    /\ mail = NoProcess
    /\ registry = NoProcess
    /\ callers \in [CallerIds -> {Caller(PyNone), Caller(PyStr(<<"9">>))}]

\* what a step of a caller leaves alone, but for the stored default
RaceFrame ==
    UNCHANGED <<rvars, self_token, ctor, mode, cpc, inv, calls, wire, service, ws0,
                created, resolved, ops, outcome, exit, policy, activity, mail,
                registry>>

\* lines 148-151: the tests of the argument and of the stored default
TestWorkspace(c) ==
    /\ callers[c].pc = "called"
    /\ callers' = [callers EXCEPT ![c] =
          IF Truthy(callers[c].workspace)
          THEN [@ EXCEPT !.pc = "returned", !.result = Return(callers[c].workspace)]
          ELSE IF Truthy(self_workspace) THEN [@ EXCEPT !.pc = "cached"]
          ELSE [@ EXCEPT !.pc = "listing"]]
    /\ UNCHANGED self_workspace
    /\ RaceFrame

\* line 151: return self._workspace, read after the test
ReturnCached(c) ==
    /\ callers[c].pc = "cached"
    /\ callers' = [callers EXCEPT ![c] =
          [@ EXCEPT !.pc = "returned", !.result = Return(self_workspace)]]
    /\ UNCHANGED self_workspace
    /\ RaceFrame

\* lines 154-156: list_workspaces() and the test of what it returned
ListWorkspaces(c) ==
    /\ callers[c].pc = "listing"
    /\ \E o \in ListWorkspacesOutcomes(service) :
          LET gid == IF o.raised THEN o
                     ELSE IF NoneListed(o.value)
                     THEN Raise(AsanaError(<<"No workspaces found for this user">>))
                     ELSE FirstGid(o.value)
          IN  callers' = [callers EXCEPT ![c] =
                 IF gid.raised
                 THEN [@ EXCEPT !.pc = "raised", !.workspaces = o, !.listed = TRUE,
                                !.result = gid]
                 ELSE [@ EXCEPT !.pc = "storing", !.workspaces = o, !.listed = TRUE]]
    /\ UNCHANGED self_workspace
    /\ RaceFrame

\* line 157: self._workspace = workspaces[0]["gid"]
StoreWorkspace(c) ==
    /\ callers[c].pc = "storing"
    /\ self_workspace' = FirstGid(callers[c].workspaces.value).value
    /\ callers' = [callers EXCEPT ![c].pc = "stored"]
    /\ RaceFrame

\* line 158: return self._workspace
ReturnStored(c) ==
    /\ callers[c].pc = "stored"
    /\ callers' = [callers EXCEPT ![c] =
          [@ EXCEPT !.pc = "returned", !.result = Return(self_workspace)]]
    /\ UNCHANGED self_workspace
    /\ RaceFrame

RaceNext ==
    \/ \E c \in CallerIds : TestWorkspace(c)
    \/ \E c \in CallerIds : ReturnCached(c)
    \/ \E c \in CallerIds : ListWorkspaces(c)
    \/ \E c \in CallerIds : StoreWorkspace(c)
    \/ \E c \in CallerIds : ReturnStored(c)

RaceSpec == RaceInit /\ [][RaceNext]_vars

\* ------------------------------------------------- hooks: enforce-policy.py
\* ALLOWED_AGENTS: empty as the script ships
ALLOWED_AGENTS == {}

\* Letters, for re.IGNORECASE.
UpperCase ==
    <<"A", "B", "C", "D", "E", "F", "G", "H", "I", "J", "K", "L", "M", "N", "O", "P",
      "Q", "R", "S", "T", "U", "V", "W", "X", "Y", "Z">>

LowerCase ==
    <<"a", "b", "c", "d", "e", "f", "g", "h", "i", "j", "k", "l", "m", "n", "o", "p",
      "q", "r", "s", "t", "u", "v", "w", "x", "y", "z">>

Lower(c) ==
    IF \E k \in 1..Len(UpperCase) : UpperCase[k] = c
    THEN LowerCase[CHOOSE k \in 1..Len(UpperCase) : UpperCase[k] = c]
    ELSE c

\* what \s matches
IsSpace(c) == c \in {" ", "\t", "\n", "\r", "\f"}

\* A pattern is a sequence of atoms: a literal character, \s+ or .*
Lit(text) == [k \in 1..Len(text) |-> [a |-> "chr", c |-> text[k]]]

WsPlus == <<[a |-> "ws+", c |-> ""]>>

AnyStar == <<[a |-> "any*", c |-> ""]>>

RECURSIVE MatchesAt(_, _, _, _)
\* the atoms of p from the k-th on match s from position i on, letters
\* compared without case
MatchesAt(p, k, s, i) ==
    IF k > Len(p) THEN TRUE
    ELSE CASE p[k].a = "chr" ->
                /\ i <= Len(s)
                /\ Lower(s[i]) = Lower(p[k].c)
                /\ MatchesAt(p, k + 1, s, i + 1)
           [] p[k].a = "ws+" ->
                \E j \in (i + 1)..(Len(s) + 1) :
                   /\ \A x \in i..(j - 1) : IsSpace(s[x])
                   /\ MatchesAt(p, k + 1, s, j)
           [] p[k].a = "any*" ->
                \E j \in i..(Len(s) + 1) :
                   /\ \A x \in i..(j - 1) : s[x] # "\n"
                   /\ MatchesAt(p, k + 1, s, j)

\* re.search(pattern, text, re.IGNORECASE) finds a match
Search(p, s) == \E i \in 1..(Len(s) + 1) : MatchesAt(p, 1, s, i)

\* BLOCKED_PATTERNS, the patterns alone
BLOCKED_PATTERNS ==
    <<Lit(<<"t", "o", "o", "l", "s", ".", "t", "h", "r", "e", "a", "d">>),
      Lit(<<"c", "r", "e", "a", "t", "e", "_", "p", "o", "s", "t">>),
      Lit(<<"g", "i", "t">>) \o WsPlus \o Lit(<<"p", "u", "s", "h">>) \o AnyStar
         \o Lit(<<"-", "-", "f", "o", "r", "c", "e">>),
      Lit(<<"r", "m">>) \o WsPlus \o Lit(<<"-", "r", "f">>) \o WsPlus \o Lit(<<"/">>)>>

\* ALLOWED_PATTERNS
ALLOWED_PATTERNS ==
    <<Lit(<<"g", "i", "t">>) \o WsPlus \o Lit(<<"s", "t", "a", "t", "u", "s">>),
      Lit(<<"g", "i", "t">>) \o WsPlus \o Lit(<<"d", "i", "f", "f">>),
      Lit(<<"g", "i", "t">>) \o WsPlus \o Lit(<<"l", "o", "g">>),
      Lit(<<"e", "c", "h", "o">>) \o WsPlus>>

\* lines 90-92: some allowed pattern is found in the command
AllowedMatch(command) ==
    \E k \in 1..Len(ALLOWED_PATTERNS) : Search(ALLOWED_PATTERNS[k], command)

\* lines 95-96: some blocked pattern is found in the command
BlockedMatch(command) ==
    \E k \in 1..Len(BLOCKED_PATTERNS) : Search(BLOCKED_PATTERNS[k], command)

\* The commands the hook is given.
CmdGitStatus == <<"g", "i", "t", " ", "s", "t", "a", "t", "u", "s">>

CmdRmRoot == <<"r", "m", " ", "-", "r", "f", " ", "/">>

CmdEchoThenRm == <<"e", "c", "h", "o", " ", "x", ";", " ", "r", "m", " ", "-", "r", "f", " ", "/">>

CmdRmUpper == <<"R", "M", " ", " ", "-", "R", "F", " ", "/", "t", "m", "p">>

CmdForcePush == <<"g", "i", "t", " ", "p", "u", "s", "h", " ", "-", "f", " ", "-", "-", "f", "o", "r", "c", "e">>

CmdPush == <<"g", "i", "t", " ", "p", "u", "s", "h">>

CmdCreatePost == <<"c", "r", "e", "a", "t", "e", "_", "p", "o", "s", "t">>

CmdThread == <<"t", "o", "o", "l", "s", ".", "t", "h", "r", "e", "a", "d">>

CmdNoDot == <<"t", "o", "o", "l", "s", "X", "t", "h", "r", "e", "a", "d">>

CmdEcho == <<"e", "c", "h", "o">>

ShellCommands == {CmdGitStatus, CmdRmRoot, CmdEchoThenRm, CmdRmUpper, CmdForcePush, CmdPush, CmdCreatePost, CmdThread, CmdNoDot, CmdEcho, <<>>}

\* The keys of the hook input.
HOOK ==
    [event_type |-> <<"event_type">>, tool_name |-> <<"tool_name">>,
     tool_input |-> <<"tool_input">>, command |-> <<"command">>,
     description |-> <<"description">>, file_path |-> <<"file_path">>,
     subagent_type |-> <<"subagent_type">>,
     working_directory |-> <<"working_directory">>]

\* The text on stdin for an event about a tool.
HookInput(event_type, tool_name, tool_input) ==
    JsonDumps(PyDict(<<<<HOOK.event_type, event_type>>, <<HOOK.tool_name, tool_name>>,
                       <<HOOK.tool_input, tool_input>>>>))

BashCommand(command) == PyDict(<<<<HOOK.command, command>>>>)

PreToolUse == PyStr(<<"PreToolUse">>)

Bash == PyStr(<<"Bash">>)

\* What the hook is let to find on stdin.
PolicyInputs ==
    {HookInput(PreToolUse, Bash, BashCommand(PyStr(c))) : c \in ShellCommands}
    \cup {HookInput(PyStr(<<"PostToolUse">>), Bash, BashCommand(PyStr(CmdRmRoot))),
          HookInput(PreToolUse, PyStr(<<"Edit">>), BashCommand(PyStr(CmdRmRoot))),
          HookInput(PyNone, Bash, BashCommand(PyStr(CmdRmRoot))),
          HookInput(PreToolUse, Bash, PyDict(<<>>)),
          HookInput(PreToolUse, Bash, PyNone),
          HookInput(PreToolUse, Bash, PyStr(CmdRmRoot)),
          HookInput(PreToolUse, Bash, PyList(<<PyStr(CmdRmRoot)>>)),
          HookInput(PreToolUse, Bash, BashCommand(PyInt(5))),
          HookInput(PreToolUse, Bash, BashCommand(PyInt(0))),
          HookInput(PreToolUse, Bash, BashCommand(PyNone)),
          HookInput(PreToolUse, Bash, BashCommand(PyList(<<PyStr(CmdRmRoot)>>))),
          JsonDumps(PyDict(<<<<HOOK.tool_name, Bash>>,
                             <<HOOK.tool_input, BashCommand(PyStr(CmdRmRoot))>>>>)),
          JsonDumps(PyDict(<<<<HOOK.event_type, PreToolUse>>,
                             <<HOOK.tool_input, BashCommand(PyStr(CmdRmRoot))>>>>)),
          JsonDumps(PyDict(<<<<HOOK.event_type, PreToolUse>>, <<HOOK.tool_name, Bash>>>>)),
          <<>>, <<"{">>, <<"r", "m">>, <<"[", "]">>, <<"n", "u", "l", "l">>, <<"5">>,
          <<"\"", "r", "m", "\"">>}

\* The values of LETTA_AGENT_ID, "" when it is not set.
AgentIds == {<<>>, <<"agent-1">>}

\* A run of enforce-policy.py: where it is, its stdin and environment, the
\* locals of main() and how it ended.
PolicyProcess(stdin, agent_id) ==
    [pc |-> "start", stdin |-> stdin, agent_id |-> agent_id, input_data |-> PyNone,
     event_type |-> PyNone, tool_name |-> PyNone, tool_input |-> PyNone,
     command |-> PyNone, exit |-> Running]

\* sys.exit(code)
SysExit(p, code) == [p EXCEPT !.pc = "exited", !.exit = Exited(code, "exit")]

\* an exception nothing handles: the traceback and status 1
Uncaught(p) == [p EXCEPT !.pc = "exited", !.exit = Exited(1, "traceback")]

PolicyInit ==
    /\ ClientInit
    /\ callers = <<>>
    /\ activity = NoProcess
    /\ mail = NoProcess
    /\ registry = NoProcess
    /\ policy \in {PolicyProcess(s, a) : s \in PolicyInputs, a \in AgentIds}

PolicyFrame == UNCHANGED <<rvars, cvars, callers, activity, mail, registry>>

\* lines 60-64: json.load(sys.stdin)
PolicyLoad ==
    /\ policy.pc = "start"
    /\ LET r == JsonLoads(policy.stdin)
       IN  policy' = IF r.ok THEN [policy EXCEPT !.pc = "loaded", !.input_data = r.v]
                     ELSE SysExit(policy, 0)
    /\ PolicyFrame

\* lines 66-68: the three input_data.get(...)
PolicyRead ==
    /\ policy.pc = "loaded"
    /\ LET event_type == ResultGet(policy.input_data, HOOK.event_type, PyNone)
           tool_name  == ResultGet(policy.input_data, HOOK.tool_name, PyStr(<<>>))
           tool_input == ResultGet(policy.input_data, HOOK.tool_input, PyDict(<<>>))
       IN  policy' = IF event_type.raised THEN Uncaught(policy)
                     ELSE [policy EXCEPT !.pc = "read",
                                         !.event_type = event_type.value,
                                         !.tool_name = tool_name.value,
                                         !.tool_input = tool_input.value]
    /\ PolicyFrame

\* lines 71-87: the tests of the event, the tool, the agent and the command
PolicyGate ==
    /\ policy.pc = "read"
    /\ LET command == ResultGet(policy.tool_input, HOOK.command, PyStr(<<>>))
       IN  policy' =
              IF policy.event_type # PreToolUse THEN SysExit(policy, 0)
              ELSE IF policy.tool_name # Bash THEN SysExit(policy, 0)
              ELSE IF policy.agent_id \in ALLOWED_AGENTS THEN SysExit(policy, 0)
              ELSE IF command.raised THEN Uncaught(policy)
              ELSE IF ~Truthy(command.value) THEN SysExit(policy, 0)
              ELSE [policy EXCEPT !.pc = "checking", !.command = command.value]
    /\ PolicyFrame

\* lines 90-92: the allowed patterns, looked at first
PolicyCheckAllowed ==
    /\ policy.pc = "checking"
    /\ policy' = IF policy.command.t # "str" THEN Uncaught(policy)
                 ELSE IF AllowedMatch(policy.command.s) THEN SysExit(policy, 0)
                 ELSE [policy EXCEPT !.pc = "unallowed"]
    /\ PolicyFrame

\* lines 95-112: the blocked patterns
PolicyCheckBlocked ==
    /\ policy.pc = "unallowed"
    /\ policy' = IF BlockedMatch(policy.command.s) THEN SysExit(policy, 2)
                 ELSE SysExit(policy, 0)
    /\ PolicyFrame

PolicyNext ==
    \/ PolicyLoad
    \/ PolicyRead
    \/ PolicyGate
    \/ PolicyCheckAllowed
    \/ PolicyCheckBlocked

PolicySpec == PolicyInit /\ [][PolicyNext]_vars

\* --------------------------------------------------- hooks: log-activity.py
PostToolUse == PyStr(<<"PostToolUse">>)

\* The shapes of tool_input the hook is given.
ToolInputs ==
    {PyDict(<<>>), PyNone, PyStr(<<"x">>), PyList(<<PyStr(<<"x">>)>>),
     PyDict(<<<<HOOK.description, PyStr(<<"d">>)>>>>),
     PyDict(<<<<HOOK.description, PyInt(5)>>>>),
     PyDict(<<<<HOOK.command, PyStr(CmdRmRoot)>>>>),
     PyDict(<<<<HOOK.command, PyInt(5)>>>>),
     PyDict(<<<<HOOK.command, PyList(<<PyStr(<<"x">>)>>)>>>>),
     PyDict(<<<<HOOK.file_path, PyStr(<<"/", "a">>)>>>>),
     PyDict(<<<<HOOK.file_path, PyInt(5)>>>>),
     PyDict(<<<<HOOK.description, PyNone>>, <<HOOK.subagent_type, PyStr(<<"s">>)>>>>)}

ToolNames ==
    {Bash, PyStr(<<"Edit">>), PyStr(<<"Write">>), PyStr(<<"Task">>), PyStr(<<"Read">>),
     PyInt(5)}

\* What the hook is let to find on stdin.
ActivityInputs ==
    {HookInput(PostToolUse, n, i) : n \in ToolNames, i \in ToolInputs}
    \cup {HookInput(PreToolUse, Bash, PyDict(<<>>)),
          JsonDumps(PyDict(<<<<HOOK.event_type, PostToolUse>>>>)),
          JsonDumps(PyDict(<<>>)),
          <<>>, <<"{">>, <<"[", "]">>, <<"n", "u", "l", "l">>, <<"5">>}

\* What becomes of creating ~/.letta and appending to the log file.
WriteOutcomes == {"written", "OSError"}

\* A run of log-activity.py: where it is, its stdin, what the file system will
\* do, the locals of main() (of summary only whether it is a str), whether the
\* entry was appended, and how the run ended.
ActivityProcess(stdin, disk) ==
    [pc |-> "start", stdin |-> stdin, disk |-> disk, input_data |-> PyNone,
     tool_name |-> PyNone, tool_input |-> PyNone, summary |-> "", logged |-> FALSE,
     exit |-> Running]

TypeError == ForeignError("TypeError")

\* The type of a value as far as the calls of the script tell types apart.
StrOrNot(v) == IF v.t = "str" THEN "str" ELSE "other"

\* lines 40-44: redact(text) returns a str, or re.sub raises for what is no str
Redacts(kind) == IF kind = "str" THEN Return(PyNone) ELSE Raise(TypeError)

\* value[:100]: a str or a list can be sliced
Sliceable(v) == v.t \in {"str", "list"}

\* lines 62-79: the summary for the tool, as "str" or "other", or the exception
\* raised on the way
Summary(tool_name, tool_input) ==
    LET description(default) == ResultGet(tool_input, HOOK.description, default)
        command   == ResultGet(tool_input, HOOK.command, PyStr(<<>>))
        file_path == ResultGet(tool_input, HOOK.file_path, PyStr(<<"unknown">>))
        agent     == ResultGet(tool_input, HOOK.subagent_type, PyStr(<<>>))
    IN  IF tool_input.t # "dict" THEN Raise(ForeignError("AttributeError"))
        ELSE IF tool_name = Bash
        THEN IF Truthy(description(PyStr(<<>>)).value)
             THEN Return(StrOrNot(description(PyStr(<<>>)).value))
             ELSE IF ~Sliceable(command.value) THEN Raise(TypeError)
             ELSE IF Redacts(StrOrNot(command.value)).raised THEN Raise(TypeError)
             ELSE Return("str")
        ELSE IF tool_name \in {PyStr(<<"Edit">>), PyStr(<<"Write">>)}
        THEN IF file_path.value.t # "str" THEN Raise(TypeError) ELSE Return("str")
        ELSE IF tool_name = PyStr(<<"Task">>)
        THEN IF Truthy(agent.value) THEN Return("str")
             ELSE Return(StrOrNot(description(PyStr(<<"task">>)).value))
        ELSE Return(StrOrNot(description(tool_name).value))

ActivityInit ==
    /\ ClientInit
    /\ callers = <<>>
    /\ policy = NoProcess
    /\ mail = NoProcess
    /\ registry = NoProcess
    /\ activity \in {ActivityProcess(s, d) : s \in ActivityInputs, d \in WriteOutcomes}

ActivityFrame == UNCHANGED <<rvars, cvars, callers, policy, mail, registry>>

\* lines 48-51: json.load(sys.stdin)
ActivityLoad ==
    /\ activity.pc = "start"
    /\ LET r == JsonLoads(activity.stdin)
       IN  activity' = IF r.ok
                       THEN [activity EXCEPT !.pc = "loaded", !.input_data = r.v]
                       ELSE SysExit(activity, 0)
    /\ ActivityFrame

\* lines 53-59: the event test and the fields of the input
ActivityRead ==
    /\ activity.pc = "loaded"
    /\ LET event_type == ResultGet(activity.input_data, HOOK.event_type, PyStr(<<>>))
           tool_name  == ResultGet(activity.input_data, HOOK.tool_name,
                                   PyStr(<<"unknown">>))
           tool_input == ResultGet(activity.input_data, HOOK.tool_input, PyDict(<<>>))
       IN  activity' = IF event_type.raised THEN Uncaught(activity)
                       ELSE IF event_type.value # PostToolUse THEN SysExit(activity, 0)
                       ELSE [activity EXCEPT !.pc = "read",
                                             !.tool_name = tool_name.value,
                                             !.tool_input = tool_input.value]
    /\ ActivityFrame

\* lines 62-79: the summary
ActivitySummary ==
    /\ activity.pc = "read"
    /\ LET summary == Summary(activity.tool_name, activity.tool_input)
       IN  activity' = IF summary.raised THEN Uncaught(activity)
                       ELSE [activity EXCEPT !.pc = "summed", !.summary = summary.value]
    /\ ActivityFrame

\* lines 82-83: the log entry, with redact(summary)
ActivityFormat ==
    /\ activity.pc = "summed"
    /\ activity' = IF Redacts(activity.summary).raised THEN Uncaught(activity)
                   ELSE [activity EXCEPT !.pc = "formatted"]
    /\ ActivityFrame

\* lines 86-91: the directory, the append to the file, and the exit
ActivityWrite ==
    /\ activity.pc = "formatted"
    /\ activity' = IF activity.disk = "OSError" THEN Uncaught(activity)
                   ELSE SysExit([activity EXCEPT !.logged = TRUE], 0)
    /\ ActivityFrame

ActivityNext ==
    \/ ActivityLoad
    \/ ActivityRead
    \/ ActivitySummary
    \/ ActivityFormat
    \/ ActivityWrite

ActivitySpec == ActivityInit /\ [][ActivityNext]_vars

\* ------------------------------------------------- gmail: needs_reply.py
\* The most messages the listing returns, the most messages of a mailbox, and
\* the latest internalDate.
MaxListed == 2

MaxMessages == 3

MaxDate == 2

\* profile["emailAddress"], and the From headers of the user and of another
ProfileAddress == <<"M", "@", "x">>

UserFrom == <<"U", " ", "<", "m", "@", "X", ">">>

OtherFrom == <<"o", "@", "x">>

\* str.lower()
LowerText(s) == [k \in 1..Len(s) |-> Lower(s[k])]

\* A message resource: id, labelIds, the headers of the payload as pairs, and
\* internalDate, which the API gives as a decimal string.
Message(id, labelIds, from, date) ==
    [id |-> id, labelIds |-> labelIds, headers |-> <<<<"From", from>>>>,
     internalDate |-> FormatInt(date)]

\* {h["name"]: h["value"] for h in headers}.get(name, default)
HeaderGet(headers, name, default) ==
    LET at == {k \in 1..Len(headers) : headers[k][1] = name}
    IN  IF at = {} THEN default
        ELSE headers[CHOOSE k \in at : \A j \in at : j <= k][2]

\* "DRAFT" in t_labels
IsDraft(m) == \E k \in 1..Len(m.labelIds) : m.labelIds[k] = "DRAFT"

\* my_email in t_from
IsMine(m, my_email) ==
    IsSubstring(my_email, LowerText(HeaderGet(m.headers, "From", <<>>)))

\* int(t_msg.get("internalDate", 0))
DateOf(m) == IntOfStr(m.internalDate).n

RECURSIVE SortedByDate(_)
\* lines 82-85: sorted(..., key=int(internalDate)), which is stable
SortedByDate(msgs) ==
    IF msgs = <<>> THEN <<>>
    ELSE LET front == SortedByDate(SubSeq(msgs, 1, Len(msgs) - 1))
             m     == msgs[Len(msgs)]
             k     == Cardinality({i \in 1..Len(front) : DateOf(front[i]) <= DateOf(m)})
         IN  SubSeq(front, 1, k) \o <<m>> \o SubSeq(front, k + 1, Len(front))

\* No message: last_external_msg = None, last_external_date = 0
NoExternal == [found |-> FALSE, msg |-> Message(0, <<>>, <<>>, 0), date |-> 0]

RECURSIVE LastExternal(_, _, _, _)
\* lines 91-108: the loop from the k-th message on, best as found so far
LastExternal(thread_msgs, k, my_email, best) ==
    IF k > Len(thread_msgs) THEN best
    ELSE LET t_msg == thread_msgs[k]
         IN  IF IsDraft(t_msg) \/ IsMine(t_msg, my_email)
             THEN LastExternal(thread_msgs, k + 1, my_email, best)
             ELSE IF DateOf(t_msg) > best.date
             THEN LastExternal(thread_msgs, k + 1, my_email,
                               [found |-> TRUE, msg |-> t_msg, date |-> DateOf(t_msg)])
             ELSE LastExternal(thread_msgs, k + 1, my_email, best)

\* a variant that takes a message of the same date for a reply
RepliedAfterOrAt(msg_date, last_external_date) == msg_date >= last_external_date

\* line 124: msg_date > last_external_date
RepliedAfter(msg_date, last_external_date) == msg_date > last_external_date

RECURSIVE ReplyScan(_, _, _, _, _)
\* lines 117-129: the loop from the k-th message on; it ends at the first
\* reply that is no draft
ReplyScan(thread_msgs, k, my_email, last_external_date, has_draft_reply) ==
    IF k > Len(thread_msgs)
    THEN [my_reply_after |-> FALSE, has_draft_reply |-> has_draft_reply]
    ELSE LET t_msg == thread_msgs[k]
         IN  IF IsMine(t_msg, my_email)
                   /\ RepliedAfter(DateOf(t_msg), last_external_date)
             THEN IF IsDraft(t_msg)
                  THEN ReplyScan(thread_msgs, k + 1, my_email, last_external_date, TRUE)
                  ELSE [my_reply_after |-> TRUE, has_draft_reply |-> has_draft_reply]
             ELSE ReplyScan(thread_msgs, k + 1, my_email, last_external_date,
                            has_draft_reply)

\* lines 63-146: what one listed message adds to needs_reply: one entry or
\* none (of the entry: id, thread_id, from, status and is_unread)
Examined(msg_data, thread, my_email) ==
    LET thread_msgs == SortedByDate(thread)
        last == LastExternal(thread_msgs, 1, my_email, NoExternal)
        scan == ReplyScan(thread_msgs, 1, my_email, last.date, FALSE)
    IN  IF ~last.found \/ scan.my_reply_after THEN <<>>
        ELSE <<[id |-> last.msg.id,
                thread_id |-> msg_data.threadId,
                from |-> HeaderGet(last.msg.headers, "From", <<>>),
                status |-> IF scan.has_draft_reply THEN "DRAFT_ONLY" ELSE "NO_REPLY",
                is_unread |-> \E k \in 1..Len(msg_data.labelIds) :
                                 msg_data.labelIds[k] = "UNREAD"]>>

\* lines 149-152: the sort key, False before True in both places
SortRank(entry) ==
    (IF entry.is_unread THEN 0 ELSE 2) + (IF entry.status = "DRAFT_ONLY" THEN 0 ELSE 1)

RECURSIVE SortedByRank(_)
\* needs_reply.sort(key=...), which is stable
SortedByRank(entries) ==
    IF entries = <<>> THEN <<>>
    ELSE LET front == SortedByRank(SubSeq(entries, 1, Len(entries) - 1))
             e     == entries[Len(entries)]
             k     == Cardinality({i \in 1..Len(front) : SortRank(front[i]) <= SortRank(e)})
         IN  SubSeq(front, 1, k) \o <<e>> \o SubSeq(front, k + 1, Len(front))

\* The messages a thread is made of: an external message, a message the user
\* sent, or a draft of the user, each with its date.
MessageShapes ==
    {[from |-> f, draft |-> d, date |-> t] :
        f \in {UserFrom, OtherFrom}, d \in BOOLEAN, t \in 1..MaxDate}
    \ {[from |-> OtherFrom, draft |-> TRUE, date |-> t] : t \in 1..MaxDate}

ThreadShapes == UNION {[1..n -> MessageShapes] : n \in 1..MaxMessages}

\* Thread t of the mailbox: the messages as threads().get returns them.
ThreadOf(t, shape) ==
    [k \in 1..Len(shape) |->
        Message(10 * t + k, IF shape[k].draft THEN <<"DRAFT">> ELSE <<"INBOX">>,
                shape[k].from, shape[k].date)]

\* The message of thread t that the listing returned, as messages().get
\* returns it.
ListedOf(t, shape, unread) ==
    [id |-> 10 * t + 1, threadId |-> t,
     labelIds |-> IF unread THEN <<"INBOX", "UNREAD">> ELSE <<"INBOX">>]

RECURSIVE MessagesIn(_)
\* how many messages the threads of a mailbox hold
MessagesIn(box) ==
    IF box = <<>> THEN 0 ELSE Len(box[1][1]) + MessagesIn(Tail(box))

\* The mailboxes: for each message listed, its thread and whether it is unread.
Mailboxes ==
    {box \in UNION {[1..n -> ThreadShapes \X BOOLEAN] : n \in 0..MaxListed} :
        MessagesIn(box) <= MaxMessages}

\* A call of get_needs_reply against a mailbox.
MailCall(box) ==
    [pc |-> "called",
     listed |-> [t \in 1..Len(box) |-> ListedOf(t, box[t][1], box[t][2])],
     threads |-> [t \in 1..Len(box) |-> ThreadOf(t, box[t][1])],
     my_email |-> <<>>, i |-> 0, needs_reply |-> <<>>, result |-> <<>>]

MailInit ==
    /\ ClientInit
    /\ callers = <<>>
    /\ policy = NoProcess
    /\ activity = NoProcess
    /\ registry = NoProcess
    /\ mail \in {MailCall(box) : box \in Mailboxes}

MailFrame == UNCHANGED <<rvars, cvars, callers, policy, activity, registry>>

\* lines 43-60: the profile and the listing
MailList ==
    /\ mail.pc = "called"
    /\ mail' = [mail EXCEPT !.pc = "examining", !.my_email = LowerText(ProfileAddress),
                            !.i = 1]
    /\ MailFrame

\* lines 62-146: one turn of the loop over the messages listed
MailExamine ==
    /\ mail.pc = "examining"
    /\ mail.i <= Len(mail.listed)
    /\ mail' = [mail EXCEPT
          !.needs_reply = @ \o Examined(mail.listed[mail.i],
                                        mail.threads[mail.listed[mail.i].threadId],
                                        mail.my_email),
          !.i = @ + 1]
    /\ MailFrame

\* lines 149-154: the sort and the return
MailReturn ==
    /\ mail.pc = "examining"
    /\ mail.i > Len(mail.listed)
    /\ mail' = [mail EXCEPT !.pc = "returned", !.result = SortedByRank(mail.needs_reply)]
    /\ MailFrame

MailNext ==
    \/ MailList
    \/ MailExamine
    \/ MailReturn

MailSpec == MailInit /\ [][MailNext]_vars

\* ---------------------------------- system tools: register_system_tools.py
\* How often register_tools is run in sequence.
MaxRuns == 2

\* list(TOOLS.keys())
TOOLS ==
    <<"execute_shell_command", "read_file_contents", "write_file_contents",
      "list_directory_contents">>

IsTool(tool_name) == \E k \in 1..Len(TOOLS) : TOOLS[k] = tool_name

\* The `tools` arguments of the caller: None, some tools, one of them twice.
ToolsArguments ==
    {<<>>, <<"read_file_contents">>, <<"write_file_contents", "no_such_tool">>,
     <<"read_file_contents", "read_file_contents">>}

\* The names of the tools on the server before the first run.
Registered ==
    {{}, {"read_file_contents"}, {"send_message"},
     {"execute_shell_command", "read_file_contents", "write_file_contents",
      "list_directory_contents"}}

\* What becomes of GET /v1/tools: the list, a ConnectionError, or another
\* exception (an HTTP error status, a read timeout, a body that is no list of
\* objects).
ListingOutcomes == {"listed", "ConnectionError", "Exception"}

\* What becomes of the registration of one tool: the server stores it, the
\* server or the network refuses the POST, or inspect.getsource raises before
\* any request.
PostOutcomes == {"created", "refused", "no_source"}

\* A run of register_tools: where it is, the argument, the names on the
\* server, the locals, the POST requests made so far (the name, whether the
\* server had it, and whether the server stored it), and the value returned.
RegisterRun(tools, server) ==
    [pc |-> "called", run |-> 1, tools |-> tools, server |-> server,
     tools_to_register |-> <<>>, i |-> 0, existing_tools |-> {}, registered |-> 0,
     skipped |-> 0, failed |-> 0, posts |-> <<>>, result |-> FALSE]

RegisterInit ==
    /\ ClientInit
    /\ callers = <<>>
    /\ policy = NoProcess
    /\ activity = NoProcess
    /\ mail = NoProcess
    /\ registry \in {RegisterRun(t, s) : t \in ToolsArguments, s \in Registered}

RegisterFrame == UNCHANGED <<rvars, cvars, callers, policy, activity, mail>>

\* lines 65-81: the tools to register and the listing of the existing ones
RegisterList ==
    /\ registry.pc = "called"
    /\ \E o \in ListingOutcomes :
          registry' =
             IF o = "ConnectionError"
             THEN [registry EXCEPT !.pc = "returned", !.result = FALSE]
             ELSE [registry EXCEPT
                      !.pc = "registering",
                      !.tools_to_register = IF registry.tools # <<>> THEN registry.tools
                                            ELSE TOOLS,
                      !.existing_tools = IF o = "listed" THEN registry.server ELSE {},
                      !.i = 1, !.registered = 0, !.skipped = 0, !.failed = 0]
    /\ RegisterFrame

\* lines 83-121: one turn of the loop over the tools
RegisterTool ==
    /\ registry.pc = "registering"
    /\ registry.i <= Len(registry.tools_to_register)
    /\ LET tool_name == registry.tools_to_register[registry.i]
           Post(stored) == [name |-> tool_name, known |-> tool_name \in registry.server,
                            created |-> stored]
       IN  IF ~IsTool(tool_name)
           THEN registry' = [registry EXCEPT !.i = @ + 1]
           ELSE IF tool_name \in registry.existing_tools
           THEN registry' = [registry EXCEPT !.i = @ + 1, !.skipped = @ + 1]
           ELSE \E o \in PostOutcomes :
                   registry' =
                      CASE o = "created" ->
                              [registry EXCEPT !.i = @ + 1, !.registered = @ + 1,
                                               !.server = @ \cup {tool_name},
                                               !.posts = Append(@, Post(TRUE))]
                        [] o = "refused" ->
                              [registry EXCEPT !.i = @ + 1, !.failed = @ + 1,
                                               !.posts = Append(@, Post(FALSE))]
                        [] o = "no_source" ->
                              [registry EXCEPT !.i = @ + 1, !.failed = @ + 1]
    /\ RegisterFrame

\* lines 123-124: return failed == 0
RegisterReturn ==
    /\ registry.pc = "registering"
    /\ registry.i > Len(registry.tools_to_register)
    /\ registry' = [registry EXCEPT !.pc = "returned", !.result = (registry.failed = 0)]
    /\ RegisterFrame

\* the caller runs register_tools again, with the same argument
RegisterAgain ==
    /\ registry.pc = "returned"
    /\ registry.run < MaxRuns
    /\ registry' = [registry EXCEPT !.pc = "called", !.run = @ + 1]
    /\ RegisterFrame

RegisterNext ==
    \/ RegisterList
    \/ RegisterTool
    \/ RegisterReturn
    \/ RegisterAgain

RegisterSpec == RegisterInit /\ [][RegisterNext]_vars

\* ------------------------------------------------------------------- claims
Finished == pc \in {"returned", "raised"}

\* the outcome that the latest attempt met
LastOutcome == script[attempts]

\* the first n outcomes of sc exist and are all timeouts
LeadingTimeouts(sc, n) == Len(sc) >= n /\ \A i \in 1..n : sc[i].kind = "Timeout"

Is2xx(resp) == 200 <= resp.status_code /\ resp.status_code < 300

SuccessBodies == {BodyData, BodyDataList, BodyList, BodyNull, BodyString, BodyLongData}

\* sc is n timeouts followed by a 2xx reply with a json body
TimeoutsThenSuccess(sc, n) ==
    /\ Len(sc) = n + 1
    /\ LeadingTimeouts(sc, n)
    /\ sc[n + 1].kind = "Response"
    /\ Is2xx(sc[n + 1].resp)
    /\ sc[n + 1].resp.text \in SuccessBodies

TimeoutError == AsanaAPIError(<<"Request timed out after ", "3", "0", "s">>, PyNone)

\* C1: when the forced sequence is N timeouts and then a success, N < MAX_RETRIES,
\* the call never raises, is still attempting while the timeouts last, and after
\* attempt N+1 has returned the parsed body of that success.
C1_TimeoutsBelowMaxReturnSuccess ==
    \A n \in 0..(MAX_RETRIES - 1) :
        TimeoutsThenSuccess(script, n) =>
            /\ pc # "raised"
            /\ (pc = "calling" => attempts <= n /\ attempts < Len(script))
            /\ (attempts = n + 1 =>
                    /\ pc = "returned"
                    /\ result = Return(JsonLoads(script[n + 1].resp.text).v)
                    /\ JsonLoads(script[n + 1].resp.text).ok)

C1_Witness ==
    /\ TimeoutsThenSuccess(script, MAX_RETRIES - 1)
    /\ pc = "returned"
    /\ attempts = MAX_RETRIES
    /\ result.value = PyDict(<<<<<<"d", "a", "t", "a">>, PyDict(<<<<<<"g", "i", "d">>, PyStr(<<"7">>)>>>>)>>>>)

\* C2 as stated: when the forced sequence starts with N >= MAX_RETRIES timeouts
\* (exactly MAX_RETRIES timeouts and then a success included), the finished call
\* has raised the timeout error and has returned nothing.
C2_Original_MaxRetriesTimeoutsRaise ==
    /\ LeadingTimeouts(script, MAX_RETRIES) => pc # "returned"
    /\ (TimeoutsThenSuccess(script, MAX_RETRIES) /\ Finished) =>
            (pc = "raised" /\ result = Raise(TimeoutError))

\* C2 amended: when the forced sequence starts with MAX_RETRIES + 1 timeouts the
\* call raises the timeout error at attempt MAX_RETRIES + 1 and returns nothing;
\* exactly MAX_RETRIES timeouts and then a success make it return that success.
C2_MoreThanMaxRetriesTimeoutsRaise ==
    /\ LeadingTimeouts(script, MAX_RETRIES + 1) =>
            /\ pc # "returned"
            /\ (pc = "calling" => attempts <= MAX_RETRIES /\ attempts < Len(script))
            /\ (pc = "raised" => attempts = MAX_RETRIES + 1 /\ result = Raise(TimeoutError))
    /\ (TimeoutsThenSuccess(script, MAX_RETRIES) /\ attempts > MAX_RETRIES) =>
            (pc = "returned" /\ result = Return(JsonLoads(script[MAX_RETRIES + 1].resp.text).v))

C2_Witness ==
    /\ LeadingTimeouts(script, MAX_RETRIES + 1)
    /\ pc = "raised"
    /\ attempts = MAX_RETRIES + 1
    /\ result.error.type = "AsanaAPIError"

IsNetworkError(e) ==
    e.type = "AsanaAPIError" /\ e.status_code = PyNone

\* C3: one logical call issues at most MAX_RETRIES + 1 attempts whatever the mix
\* of timeouts and connection failures; each failed attempt uses up one unit of
\* the counter, a call in flight has not used up the forced sequence, and a timeout or
\* connection error is raised only with the counter at 0, after attempt
\* MAX_RETRIES + 1.
C3_AtMostMaxRetriesPlusOneAttempts ==
    /\ attempts <= MAX_RETRIES + 1
    /\ retries >= 0
    /\ (pc = "calling" => attempts + retries = MAX_RETRIES /\ attempts < Len(script))
    /\ (pc = "raised" /\ LastOutcome.kind # "Response") =>
            /\ retries = 0
            /\ attempts = MAX_RETRIES + 1
            /\ IsNetworkError(result.error)
    /\ (Finished /\ LastOutcome.kind = "Response") => attempts + retries = MAX_RETRIES + 1

C3_Witness ==
    /\ pc = "raised"
    /\ attempts = MAX_RETRIES + 1
    /\ retries = 0
    /\ \E i, j \in 1..attempts :
            script[i].kind = "Timeout" /\ script[j].kind = "ConnectionError"
    /\ Len(script) > attempts

IsErrorStatus(resp) == 400 <= resp.status_code /\ resp.status_code < 600

\* C4: once an attempt has met a reply with an error status (429, 401, another
\* 4xx or 5xx) the call has raised and that attempt stays its last one, whatever
\* the counter holds; every attempt before the last one met a timeout or a
\* connection failure.
C4_ErrorStatusNotRetried ==
    /\ \A i \in 1..Len(script) :
            (i <= attempts /\ script[i].kind = "Response" /\ IsErrorStatus(script[i].resp)) =>
                (pc = "raised" /\ attempts = i /\ retries = MAX_RETRIES + 1 - i)
    /\ \A i \in 1..(attempts - 1) : script[i].kind \in {"Timeout", "ConnectionError"}

C4_Witness ==
    /\ pc = "raised"
    /\ attempts < Len(script)
    /\ LastOutcome.kind = "Response"
    /\ LastOutcome.resp.status_code = 500
    /\ retries > 0
    /\ script[attempts + 1].kind = "Response"

\* the latest attempt met a reply
Replied == attempts >= 1 /\ LastOutcome.kind = "Response"

Reply == LastOutcome.resp

\* C5: a 429 reply with Retry-After: 45 raises the rate-limit error (the API
\* error with status 429) whose message carries 45 as the wait; with no such
\* header the message carries 60.
C5_RetryAfterHintCarried ==
    (Replied /\ Reply.status_code = 429) =>
        /\ Reply.retry_after = Header(<<"4", "5">>) =>
                /\ pc = "raised"
                /\ result.error =
                      AsanaAPIError(<<"Rate limited. Retry after ", "4", "5", "s">>, PyInt(429))
        /\ Reply.retry_after = NoHeader =>
                /\ pc = "raised"
                /\ result.error =
                      AsanaAPIError(<<"Rate limited. Retry after ", "6", "0", "s">>, PyInt(429))

C5_Witness ==
    /\ Replied
    /\ Reply.status_code = 429
    /\ Reply.retry_after = Header(<<"4", "5">>)
    /\ pc = "raised"
    /\ result.error.message[2] = "4"
    /\ result.error.message[3] = "5"

\* C6: a 401 reply, whatever its body, raises AsanaAuthError and never
\* AsanaAPIError; no AsanaAPIError carries status 401 or stems from a 401 reply.
C6_UnauthorizedIsAuthError ==
    /\ (Replied /\ Reply.status_code = 401) =>
            /\ pc = "raised"
            /\ result.error.type = "AsanaAuthError"
            /\ result.error.type # "AsanaAPIError"
    /\ (pc = "raised" /\ result.error.type = "AsanaAPIError") =>
            /\ result.error.status_code # PyInt(401)
            /\ ~(Replied /\ Reply.status_code = 401)

C6_Witness ==
    /\ Replied
    /\ Reply.status_code = 401
    /\ Reply.text = BodyErrors2
    /\ pc = "raised"
    /\ result.error.type = "AsanaAuthError"

\* C7 as stated: every reply whose status is outside 200..299 and is neither 429
\* nor 401 (3xx included) raises the API error carrying that status, and a body
\* is returned for a 2xx status only.
C7_Claim_Non2xxRaisesApiError ==
    Replied =>
        /\ (~Is2xx(Reply) /\ Reply.status_code \notin {429, 401}) =>
                /\ pc = "raised"
                /\ result.error.type = "AsanaAPIError"
                /\ result.error.status_code = PyInt(Reply.status_code)
        /\ pc = "returned" => Is2xx(Reply)

\* s[:200], written out
First200(text) == IF Len(text) <= 200 THEN text ELSE [i \in 1..200 |-> text[i]]

ApiErrorWith(status_code, detail) ==
    AsanaAPIError(<<"API error ">> \o FormatInt(status_code) \o <<":", " ">> \o detail,
                  PyInt(status_code))

MalformedBodies == {BodyEmpty, BodyHtml, BodyCut, BodyLong}

\* C8 as stated: a reply with an error status and a body that is no json raises
\* the API error whose detail is the first 200 characters of the raw body.
C8_Original_MalformedErrorBody ==
    (Replied /\ IsErrorStatus(Reply) /\ Reply.text \in MalformedBodies) =>
        /\ pc = "raised"
        /\ result.error = ApiErrorWith(Reply.status_code, First200(Reply.text))

\* C8 amended: a reply with an error status other than 429 and 401 and a body
\* that is no json raises the API error, and no other exception, whose detail is
\* the first 200 characters of the raw body.
C8_MalformedGenericErrorBody ==
    (Replied /\ IsErrorStatus(Reply) /\ Reply.status_code \notin {429, 401}
        /\ Reply.text \in MalformedBodies) =>
        /\ pc = "raised"
        /\ result.error = ApiErrorWith(Reply.status_code, First200(Reply.text))
        /\ ~JsonLoads(Reply.text).ok

C8_Witness ==
    /\ Replied
    /\ Reply.status_code = 500
    /\ Reply.text = BodyLong
    /\ Len(Reply.text) > 200
    /\ pc = "raised"
    /\ result.error.type = "AsanaAPIError"
    /\ Len(result.error.message) = 6 + 200

\* the body is a json object with an errors list
IsStructured(text) ==
    LET parsed == JsonLoads(text)
    IN  /\ parsed.ok
        /\ parsed.v.t = "dict"
        /\ DictHas(parsed.v, ERRORS)
        /\ DictGet(parsed.v, ERRORS).t = "list"

\* the body is no json, or json that is no object or has no errors member
IsUnstructured(text) ==
    LET parsed == JsonLoads(text)
    IN  ~(parsed.ok /\ parsed.v.t = "dict" /\ DictHas(parsed.v, ERRORS))

\* every member of the errors list is an object with a string message
HasMessages(text) ==
    LET errors == DictGet(JsonLoads(text).v, ERRORS).items
    IN  \A i \in 1..Len(errors) :
            /\ errors[i].t = "dict"
            /\ DictHas(errors[i], MESSAGE)
            /\ DictGet(errors[i], MESSAGE).t = "str"

ServerMessages(text) ==
    LET errors == DictGet(JsonLoads(text).v, ERRORS).items
    IN  [i \in 1..Len(errors) |-> DictGet(errors[i], MESSAGE).s]

\* C9 as stated: the detail of the generic API error is the server-reported
\* messages joined by "; " when the body is a json object with an errors list,
\* and the first 200 characters of the raw body in every case where the body is
\* not structured, valid json without an errors member included.
C9_Claim_DetailJoinedOrRawBody ==
    (Replied /\ IsErrorStatus(Reply) /\ Reply.status_code \notin {429, 401}) =>
        /\ (IsStructured(Reply.text) /\ HasMessages(Reply.text)) =>
                result.error = ApiErrorWith(Reply.status_code,
                                            JoinText(ServerMessages(Reply.text), <<";", " ">>))
        /\ IsUnstructured(Reply.text) =>
                result.error = ApiErrorWith(Reply.status_code, First200(Reply.text))

\* the failure kind, read off what the latest attempt met
Cause ==
    IF LastOutcome.kind # "Response" THEN "timeout"
    ELSE IF Reply.status_code = 401 THEN "authentication"
    ELSE IF Reply.status_code = 429 THEN "rate_limit"
    ELSE "api"

\* the failure kind, read off the exception type and status_code alone
Classify(e) ==
    IF e.type = "AsanaAuthError" THEN "authentication"
    ELSE IF e.status_code = PyInt(429) THEN "rate_limit"
    ELSE IF e.status_code = PyNone THEN "timeout"
    ELSE "api"

\* C10: the kind of every raised client error (authentication, rate limit,
\* generic API, timeout or connection) is a function of its exception type and
\* status_code, so no two kinds show the caller the same pair.
C10_FailureKindsDistinguishable ==
    (pc = "raised" /\ result.error.type \in {"AsanaAPIError", "AsanaAuthError"}) =>
        Classify(result.error) = Cause

C10_Witness ==
    /\ pc = "raised"
    /\ Cause = "timeout"
    /\ result.error.type = "AsanaAPIError"
    /\ result.error.status_code = PyNone
    /\ Classify(result.error) = "timeout"

\* ------------------------------------------------- claims about the client
\* The credential the constructor resolves: the argument if one is given,
\* else the variable of the environment.
Credential == IF Truthy(ctor.token) THEN ctor.token ELSE ctor.env_token

\* C11: from construction on the stored credential is the one resolved at
\* construction, and every HTTP attempt, each retry included, carries the
\* header Authorization: Bearer <that credential>.
C11_CredentialFixedAndSent ==
    [][/\ cpc' # "new" => self_token' = Credential'
       /\ attempts' = attempts + 1 =>
             /\ Truthy(Credential')
             /\ wire' = Sent(Current', <<"Bearer ">> \o Credential'.s)]_vars

\* a retry of a request of the second invocation has left a client whose
\* credential came from the environment
C11_Witness ==
    /\ ops = 2
    /\ attempts = 2
    /\ ctor.token = PyNone
    /\ self_token = PyStr(<<"E">>)
    /\ wire.authorization = <<"Bearer ", "E">>

\* The workspace a request of invocation i names: a parameter, a part of
\* the path or a field of the body; PyNone when it names none.
WorkspaceSent(i, r) ==
    CASE i.op = "search_tasks" /\ r.endpoint[1] = "workspaces/" ->
            PyStr(PathGid(r.endpoint))
      [] i.op \in {"get_projects", "get_tasks"} /\ r.params # PyNone
            /\ DictHas(r.params, <<"workspace">>) ->
            DictGet(r.params, <<"workspace">>)
      [] i.op = "create_task" /\ r.method = "POST" /\ r.endpoint = <<"tasks">>
            /\ DictHas(DictGet(r.json_data, KEY.data), KEY.workspace) ->
            DictGet(DictGet(r.json_data, KEY.data), KEY.workspace)
      [] OTHER -> PyNone

\* how many of the requests of the invocation list the workspaces
ListCalls == Cardinality({k \in 1..Len(calls) : calls[k] = ListWorkspacesRequest})

\* The invocation called _get_workspace without an explicit workspace and
\* found no default stored.
Unscoped ==
    /\ CallsGetWorkspace(inv)
    /\ ~Truthy(WorkspaceArg(inv))
    /\ ~Truthy(ws0)

\* C12: when _get_workspace is called without an explicit value and nothing
\* is stored, and it returns, it has made exactly one logical list-workspaces
\* call, the gid of the first record listed is stored as the default, and
\* that gid is what the operation goes on with.
C12_ResolvesFirstWorkspaceOnce ==
    (Unscoped /\ Len(calls) >= 2) =>
        /\ calls[1] = ListWorkspacesRequest
        /\ ListCalls = 1
        /\ Len(service.workspaces) > 0
        /\ self_workspace = DictGet(service.workspaces[1], KEY.gid)
        /\ WorkspaceSent(inv, calls[2]) = self_workspace

\* get_projects() on a client without default has returned; the first of
\* the two workspaces is stored
C12_Witness ==
    /\ Unscoped
    /\ inv.op = "get_projects"
    /\ cpc = "done"
    /\ ~outcome.raised
    /\ Len(calls) = 2
    /\ Len(service.workspaces) = 2
    /\ self_workspace = PyStr(<<"1">>)

\* The invocation called _get_workspace without an explicit workspace and
\* found a default stored.
Defaulted ==
    /\ CallsGetWorkspace(inv)
    /\ ~Truthy(WorkspaceArg(inv))
    /\ Truthy(ws0)

\* C13: an operation that asks for no explicit workspace on a client whose
\* default is already there (from construction or from an earlier
\* operation) sends the stored value and lists no workspaces; over all the
\* invocations on one client at most one list-workspaces call resolves the
\* default.
C13_ResolvedDefaultReused ==
    /\ resolved <= 1
    /\ Defaulted =>
          /\ ListCalls = 0
          /\ self_workspace = ws0
          /\ Len(calls) >= 1 => WorkspaceSent(inv, calls[1]) = ws0

\* the second of two invocations without explicit workspace has returned
\* with one request, on the default the first one resolved
C13_Witness ==
    /\ Defaulted
    /\ ops = 2
    /\ resolved = 1
    /\ ~Truthy(PyOr(ctor.workspace, ctor.env_workspace))
    /\ cpc = "done"
    /\ ~outcome.raised
    /\ Len(calls) = 1
    /\ ws0 = PyStr(<<"1">>)

\* The invocation called _get_workspace with an explicit workspace.
Explicit == CallsGetWorkspace(inv) /\ Truthy(WorkspaceArg(inv))

\* C14: an operation given an explicit workspace (get_projects, get_tasks by
\* assignee, search_tasks, create_task without project) sends that value,
\* lists no workspaces, and leaves the stored default as it found it.
C14_ExplicitWorkspaceUsedAsIs ==
    Explicit =>
        /\ ListCalls = 0
        /\ self_workspace = ws0
        /\ Len(calls) >= 1 => WorkspaceSent(inv, calls[1]) = inv.workspace

\* create_task(name, workspace="9") has returned on a client without default,
\* which is still without default
C14_Witness ==
    /\ Explicit
    /\ inv.op = "create_task"
    /\ cpc = "done"
    /\ ~outcome.raised
    /\ ws0 = PyNone
    /\ self_workspace = PyNone
    /\ WorkspaceSent(inv, calls[1]) = PyStr(<<"9">>)

\* The list-workspaces call of _get_workspace has returned zero records.
ZeroRecords ==
    /\ cpc = "resolving"
    /\ pc = "returned"
    /\ result.value.t = "dict"
    /\ DictHas(result.value, KEY.data) => DictGet(result.value, KEY.data) = PyList(<<>>)

\* C15: when the list-workspaces call of a resolution returns zero records,
\* the operation ends with the error "No workspaces found for this user":
\* the default stays unset, and the only request of the operation is the
\* list call, its own request is never made.
C15_NoWorkspaceIsAnError ==
    [][(ZeroRecords /\ cpc' \notin {"resolving", "exited"}) =>
          /\ cpc' = "done"
          /\ outcome'.raised
          /\ outcome'.error.type = "AsanaError"
          /\ outcome'.error.message = <<"No workspaces found for this user">>
          /\ self_workspace = PyNone
          /\ self_workspace' = PyNone
          /\ calls' = <<ListWorkspacesRequest>>]_vars

\* the second invocation in a row has listed the workspaces again, got none,
\* and failed without a request of its own
C15_Witness ==
    /\ ops = 2
    /\ Unscoped
    /\ inv.op = "search_tasks"
    /\ cpc = "done"
    /\ outcome = Raise(AsanaError(<<"No workspaces found for this user">>))
    /\ calls = <<ListWorkspacesRequest>>
    /\ self_workspace = PyNone
    /\ service.workspaces = <<>>

\* The read operations of the client.
ReadOps ==
    {"list_workspaces", "get_projects", "get_project_sections", "get_task",
     "get_tasks", "search_tasks", "get_subtasks", "get_comments",
     "get_dependencies", "get_me"}

\* The workspace the invocation works with, once it has one.
WorkspaceUsed ==
    IF Truthy(WorkspaceArg(inv)) THEN WorkspaceArg(inv) ELSE self_workspace

\* C16: no record is served from the client: every invocation of a read
\* operation that returns has sent, in that invocation, a GET request for its
\* own resource to the service, whatever was done before; and no operation
\* changes the stored credential, the default workspace being the only field
\* that operations change.
C16_EveryReadIsLive ==
    [][/\ cpc # "new" => self_token' = self_token
       /\ (cpc' = "done" /\ inv'.op \in ReadOps /\ ~outcome'.raised) =>
             /\ Len(calls') >= 1
             /\ calls'[Len(calls')] = OwnRequest(inv', WorkspaceUsed')
             /\ calls'[Len(calls')].method = "GET"
             /\ wire'.request = calls'[Len(calls')]]_vars

\* list_workspaces() returns, by a request of its own, on a client that has
\* listed the workspaces before to resolve its default
C16_Witness ==
    /\ ops = 2
    /\ inv.op = "list_workspaces"
    /\ cpc = "done"
    /\ ~outcome.raised
    /\ resolved = 1
    /\ self_workspace = PyStr(<<"1">>)
    /\ calls = <<ListWorkspacesRequest>>
    /\ wire.request = ListWorkspacesRequest
    /\ outcome.value = PyList(service.workspaces)

\* update_task was invoked with every optional field left unset.
ZeroUpdate ==
    /\ ops >= 1
    /\ inv.op = "update_task"
    /\ inv.name = PyNone
    /\ inv.completed = PyNone
    /\ inv.assignee = PyNone
    /\ inv.due_on = PyNone
    /\ inv.notes = PyNone

\* C17: update_task with no field to change ends at once with the
\* ValueError "No updates provided": no logical request is made and no HTTP
\* attempt leaves the client.
C17_EmptyUpdateFailsFast ==
    ZeroUpdate =>
        /\ cpc \in {"done", "exited"}
        /\ outcome.raised
        /\ outcome.error.type = "ValueError"
        /\ outcome.error.message = <<"No updates provided">>
        /\ calls = <<>>
        /\ wire = NoWire

\* a program's update_task(gid) has failed so
C17_Witness ==
    /\ ZeroUpdate
    /\ mode = "library"
    /\ cpc = "done"
    /\ outcome = Raise(ValueError(<<"No updates provided">>))
    /\ calls = <<>>

\* The optional fields of a body that the caller passed, with their values.
Provided(i) ==
    {f \in {<<KEY.assignee, i.assignee>>, <<KEY.due_on, i.due_on>>, <<KEY.notes, i.notes>>} :
        f[2] # PyNone}

\* The fields the claim expects in the body of invocation i, the workspace
\* apart.
ExpectedFields(i) ==
    CASE i.op = "create_task" ->
            {<<KEY.name, i.name>>} \cup Provided(i)
               \cup (IF i.project # PyNone
                     THEN {<<KEY.projects, PyList(<<i.project>>)>>} ELSE {})
      [] i.op = "create_subtask" -> {<<KEY.name, i.name>>} \cup Provided(i)
      [] i.op = "update_task" ->
            Provided(i)
               \cup (IF i.name # PyNone THEN {<<KEY.name, i.name>>} ELSE {})
               \cup (IF i.completed # PyNone THEN {<<KEY.completed, i.completed>>} ELSE {})

\* The request of the invocation that carries its body, as a set of positions
\* in calls.
BodyCalls ==
    {k \in 1..Len(calls) :
        /\ inv.op \in {"create_task", "create_subtask", "update_task"}
        /\ calls[k] # ListWorkspacesRequest
        /\ calls[k].endpoint[Len(calls[k].endpoint)] # "/addTask"}

\* the fields of the body of a request
SentFields(r) ==
    LET data == DictGet(r.json_data, KEY.data)
    IN  {data.items[k] : k \in 1..Len(data.items)}

\* C18 (as stated): the body of update_task, create_task and create_subtask
\* holds exactly the fields the caller passed, with their values, plus the
\* name, and for create_task the workspace when no project is given; no
\* passed value is dropped.
C18_Claim_BodyHasProvidedFields ==
    \A k \in BodyCalls :
        /\ {f \in SentFields(calls[k]) : f[1] # KEY.workspace} = ExpectedFields(inv)
        /\ (\E f \in SentFields(calls[k]) : f[1] = KEY.workspace)
              <=> (inv.op = "create_task" /\ inv.project = PyNone)

\* create_task was invoked with a section.
CreateInSection == ops >= 1 /\ inv.op = "create_task" /\ Truthy(inv.section)

\* Is r the request that creates the task?
IsCreate(r) == r.method = "POST" /\ r.endpoint = <<"tasks">>

\* Does the service hold a task with this gid?
Stored(gid) ==
    \E k \in 1..Len(service.tasks) : DictGet(service.tasks[k], KEY.gid) = gid

\* The task the request for the section names.
SectionedTask(r) == DictGet(DictGet(r.json_data, KEY.data), KEY.task)

\* C19: create_task with a section makes the create request and then the
\* request for the section, in that order: the second is made only when the
\* first has returned, with the gid of the task just created, and never when
\* the first raised, whose error is then the outcome; when the second raises,
\* its error is the outcome, no further request is made, and the task stays
\* on the service.
C19_CreateThenSectionNoRollback ==
    [][CreateInSection =>
          /\ (cpc = "requesting" /\ pc = "raised" /\ cpc' # "exited") =>
                /\ cpc' = "done"
                /\ outcome' = result
                /\ calls' = calls
          /\ (cpc # "sectioning" /\ cpc' = "sectioning") =>
                /\ cpc = "requesting"
                /\ pc = "returned"
                /\ IsCreate(calls[Len(calls)])
                /\ Len(calls') = Len(calls) + 1
                /\ SubSeq(calls', 1, Len(calls)) = calls
                /\ calls'[Len(calls')].method = "POST"
                /\ calls'[Len(calls')].endpoint
                      = <<"sections/">> \o inv.section.s \o <<"/addTask">>
                /\ Stored(SectionedTask(calls'[Len(calls')]))
          /\ (cpc = "sectioning" /\ pc = "raised" /\ cpc' # "exited") =>
                /\ cpc' = "done"
                /\ outcome' = result
                /\ calls' = calls
                /\ service' = service
                /\ Stored(SectionedTask(calls[Len(calls)]))']_vars

\* the task was created, the request for the section failed with its error,
\* and the task is on the service in no section
C19_Witness ==
    /\ CreateInSection
    /\ cpc = "done"
    /\ outcome.raised
    /\ outcome.error.type = "AsanaAPIError"
    /\ Len(calls) >= 2
    /\ IsCreate(calls[Len(calls) - 1])
    /\ Stored(SectionedTask(calls[Len(calls)]))
    /\ service.memberships = <<>>

\* C20: a command of the command line exits with status 0 when its handler
\* returned, with status 1 when the constructor or the handler raised an
\* error of the client (AsanaError or a subclass, the missing credential
\* included), and with status 130 when the user interrupted it; until then
\* the process runs.
C20_ExitStatus ==
    /\ (mode = "cli" /\ cpc # "exited") => exit = Running
    /\ cpc = "exited" =>
          /\ exit.by = "interrupt" => exit.code = 130
          /\ (exit.by # "interrupt" /\ ~outcome.raised) => exit.code = 0
          /\ (exit.by # "interrupt" /\ outcome.raised
                /\ outcome.error.type \in {"AsanaError", "AsanaAPIError", "AsanaAuthError"})
                => exit.code = 1
          /\ exit.code = 0 => ~outcome.raised /\ ops = 1

\* the command found no credential in the environment and exited with 1
\* before any operation
C20_Witness ==
    /\ cpc = "exited"
    /\ ctor.env_token = PyNone
    /\ outcome.raised
    /\ outcome.error.type = "AsanaAuthError"
    /\ ops = 0
    /\ exit.code = 1

\* The errors of the client's taxonomy as the code raises them: the classes
\* of the client, and the ValueError of the argument checks.
TaxonomyTypes == {"AsanaError", "AsanaAPIError", "AsanaAuthError", "ValueError"}

\* C21 (as stated): every error of the taxonomy that a command raises, the
\* validation errors of 'update' without a field and of 'tasks' without
\* project or section included, is an AsanaError, so main() catches it and
\* exits non-zero after one line on the error stream; none ends the
\* process by a traceback.
C21_Claim_TaxonomyErrorsAreCaught ==
    (cpc = "exited" /\ exit.by # "interrupt" /\ outcome.raised
        /\ outcome.error.type \in TaxonomyTypes) =>
        /\ IsAsanaError(outcome.error)
        /\ exit.by = "caught"
        /\ exit.code # 0

\* C22: the constructor takes the token from its argument when one is given
\* and else from ASANA_ACCESS_TOKEN; when neither holds a token it raises
\* an AsanaAuthError whose message says how to get one, no client comes
\* into being, no operation runs on it and no request is made.
C22_ConstructionResolvesCredential ==
    cpc # "new" =>
        /\ Truthy(ctor.token) => self_token = ctor.token
        /\ (~Truthy(ctor.token) /\ Truthy(ctor.env_token)) =>
              self_token = ctor.env_token
        /\ (Truthy(ctor.token) \/ Truthy(ctor.env_token)) =>
              cpc # "failed" /\ (ops = 0 => ~outcome.raised)
        /\ (~Truthy(ctor.token) /\ ~Truthy(ctor.env_token)) =>
              /\ cpc \in {"failed", "exited"}
              /\ outcome.raised
              /\ outcome.error.type = "AsanaAuthError"
              /\ IsSubstring(<<"Get a Personal Access Token at: https://app.asana.com/0/my-apps">>,
                             outcome.error.message)
              /\ ops = 0
              /\ calls = <<>>
              /\ wire = NoWire
              /\ pc = "idle"

\* a program passed an empty token with no token in the environment and got
\* the error instead of a client
C22_Witness ==
    /\ mode = "library"
    /\ cpc = "failed"
    /\ ctor.token = PyStr(<<>>)
    /\ ctor.env_token = PyNone
    /\ outcome.error.type = "AsanaAuthError"

\* The operations that return a collection.
CollectionOps ==
    {"list_workspaces", "get_projects", "get_project_sections", "get_tasks",
     "search_tasks", "get_subtasks", "get_comments", "get_dependencies"}

\* The records of the reply that _request has just returned, in the order
\* of the reply.
RepliedRecords == DictGet(result.value, KEY.data).items

\* Is the story a comment?
IsComment(s) ==
    /\ DictHas(s, KEY.resource_subtype)
    /\ DictGet(s, KEY.resource_subtype) = PyStr(KEY.comment_added)

\* Is r a request of search_tasks?
IsSearch(r) == r.endpoint[Len(r.endpoint)] = "/tasks/search"

\* C23: an operation that returns a collection returns the records of the
\* reply in the order of the reply (get_comments: the comments among them,
\* in that order); every search request carries sort_by=modified_at and
\* sort_ascending=false as parameters.
C23_OrderIsTheServices ==
    [][/\ (cpc = "requesting" /\ pc = "returned" /\ cpc' = "done"
             /\ inv.op \in CollectionOps /\ ~outcome'.raised) =>
             outcome'.value =
                PyList(IF inv.op = "get_comments"
                       THEN SelectSeq(RepliedRecords, IsComment)
                       ELSE RepliedRecords)
       /\ \A k \in 1..Len(calls') :
             IsSearch(calls'[k]) =>
                /\ calls'[k].method = "GET"
                /\ DictGet(calls'[k].params, <<"sort_by">>) = PyStr(<<"modified_at">>)
                /\ DictGet(calls'[k].params, <<"sort_ascending">>) = PyStr(<<"false">>)]_vars

\* get_comments has returned the two comments of three stories, in the
\* order of the service
C23_Witness ==
    /\ inv.op = "get_comments"
    /\ cpc = "done"
    /\ ~outcome.raised
    /\ Len(outcome.value.items) = 2
    /\ DictGet(outcome.value.items[1], KEY.gid) = PyStr(<<"8">>)
    /\ DictGet(outcome.value.items[2], KEY.gid) = PyStr(<<"7">>)

\* get_task was invoked, right after a create_task with a project returned,
\* on the gid of the task returned.
GetAfterCreate ==
    /\ inv.op = "get_task"
    /\ created # NoCreated
    /\ Truthy(created.args.project)
    /\ inv.task_gid = TaskGid(created.task)

\* C24: against a service that stores what it is sent, get_task on the gid
\* that create_task(name, project) has just returned finds the task (no 404)
\* and, when it returns, returns a record whose name is the name given and
\* whose projects include the project given.
C24_CreateThenGet ==
    (GetAfterCreate /\ cpc = "done") =>
        IF outcome.raised THEN outcome.error.status_code # PyInt(404)
        ELSE /\ outcome.value.t = "dict"
             /\ DictHas(outcome.value, KEY.name)
             /\ DictGet(outcome.value, KEY.name) = created.args.name
             /\ DictHas(outcome.value, KEY.projects)
             /\ \E k \in 1..Len(DictGet(outcome.value, KEY.projects).items) :
                   DictGet(outcome.value, KEY.projects).items[k] = created.args.project

\* create_task(name="X", project="5") returned task 3 and get_task("3")
\* has returned it
C24_Witness ==
    /\ GetAfterCreate
    /\ cpc = "done"
    /\ ~outcome.raised
    /\ created.args.name = PyStr(<<"X">>)
    /\ created.args.project = PyStr(<<"5">>)
    /\ DictGet(outcome.value, KEY.gid) = PyStr(<<"3">>)
    /\ DictGet(outcome.value, KEY.name) = PyStr(<<"X">>)

\* C29: _request is total over its inputs: whenever it ends, it has returned
\* the parsed body or raised an instance of AsanaError (AsanaError,
\* AsanaAPIError or AsanaAuthError); no exception of another type leaves it.
C29_Claim_RequestRaisesOnlyAsanaErrors ==
    /\ pc = "returned" => ~result.raised
    /\ pc = "raised" => result.raised /\ IsAsanaError(result.error)

\* --------------------------------------- claims about the concurrent callers
\* caller c passed no workspace
Scopeless(c) == ~Truthy(callers[c].workspace)

\* the gid of the first workspace the service lists
ListedFirst == DictGet(service.workspaces[1], KEY.gid)

\* C28: two callers that share a client with no default workspace may both call
\* list_workspaces; against a service whose list stays as it is, every
\* scope-less caller that returns obtains the gid of the first workspace
\* listed, the stored default holds that gid, and once a default is stored no
\* step changes it to another value.
C28_DuplicateResolutionIsBenign ==
    [][ /\ Truthy(self_workspace) => self_workspace' = self_workspace
        /\ Truthy(self_workspace') => self_workspace' = ListedFirst
        /\ \A c \in CallerIds :
              (Scopeless(c) /\ callers'[c].pc = "returned") =>
                  /\ callers'[c].result = Return(ListedFirst)
                  /\ self_workspace' = ListedFirst ]_vars

\* both callers have called list_workspaces, and both have returned the gid
\* that the client now holds
C28_Witness ==
    /\ \A c \in CallerIds :
          /\ Scopeless(c)
          /\ callers[c].listed
          /\ callers[c].pc = "returned"
          /\ callers[c].result = Return(PyStr(<<"1">>))
    /\ self_workspace = PyStr(<<"1">>)

\* ---------------------------------------------------- claims about the hooks
\* d[key] when d is an object that has the key, else the default
FieldOf(d, key, default) ==
    IF d.t = "dict" /\ DictHas(d, key) THEN DictGet(d, key) ELSE default

\* The command in the text on stdin, "" when there is none.
CommandOf(stdin) ==
    FieldOf(FieldOf(JsonLoads(stdin).v, HOOK.tool_input, PyDict(<<>>)),
            HOOK.command, PyStr(<<>>))

\* The conditions under which the policy blocks: the input parses, the event
\* is PreToolUse, the tool is Bash, the agent is not exempt, the command is
\* not empty, no allowed pattern matches it and a blocked pattern does.
PolicyBlocks(stdin, agent_id) ==
    /\ JsonLoads(stdin).ok
    /\ FieldOf(JsonLoads(stdin).v, HOOK.event_type, PyNone) = PreToolUse
    /\ FieldOf(JsonLoads(stdin).v, HOOK.tool_name, PyStr(<<>>)) = Bash
    /\ agent_id \notin ALLOWED_AGENTS
    /\ Truthy(CommandOf(stdin))
    /\ CommandOf(stdin).t = "str"
    /\ ~AllowedMatch(CommandOf(stdin).s)
    /\ BlockedMatch(CommandOf(stdin).s)

\* C25: enforce-policy.py exits 2 exactly under the conditions of
\* PolicyBlocks, and exits 0 in every other case.
C25_Claim_BlocksExactlyWhenPolicySays ==
    policy.pc = "exited" =>
        policy.exit.code = IF PolicyBlocks(policy.stdin, policy.agent_id) THEN 2 ELSE 0

\* C26: log-activity.py never blocks: whatever stdin holds and whatever
\* becomes of the write to the log file, the process exits with status 0.
C26_Claim_AlwaysExitsZero ==
    activity.pc = "exited" => activity.exit.code = 0

\* ------------------------------------------------ claims about needs_reply
\* the messages of thread t that are no drafts and not the user's
ExternalIn(t) ==
    {k \in 1..Len(mail.threads[t]) :
        /\ ~IsDraft(mail.threads[t][k])
        /\ ~IsMine(mail.threads[t][k], LowerText(ProfileAddress))}

\* the date of the latest of them
LatestExternalDate(t) ==
    CHOOSE d \in {DateOf(mail.threads[t][k]) : k \in ExternalIn(t)} :
        \A k \in ExternalIn(t) : DateOf(mail.threads[t][k]) <= d

\* the user has a message in thread t dated after that, a draft or not
UserMessageAfter(t, draft) ==
    \E k \in 1..Len(mail.threads[t]) :
        /\ IsMine(mail.threads[t][k], LowerText(ProfileAddress))
        /\ IsDraft(mail.threads[t][k]) = draft
        /\ DateOf(mail.threads[t][k]) > LatestExternalDate(t)

\* the entries returned for thread t
ReportedFor(t) ==
    {mail.result[k] : k \in {j \in 1..Len(mail.result) : mail.result[j].thread_id = t}}

\* C27: get_needs_reply reports the latest external message of a thread that
\* is no draft exactly when the user has sent no message, drafts apart,
\* dated after it; the status is DRAFT_ONLY exactly when the user has a
\* draft dated after it and NO_REPLY otherwise; a thread with a later reply
\* that was sent is not reported.
C27_ReportsUnansweredThreads ==
    mail.pc = "returned" =>
        \A t \in 1..Len(mail.threads) :
            IF ExternalIn(t) = {} THEN ReportedFor(t) = {}
            ELSE /\ (ReportedFor(t) # {}) <=> ~UserMessageAfter(t, FALSE)
                 /\ \A e \in ReportedFor(t) :
                       /\ \E k \in ExternalIn(t) :
                             /\ mail.threads[t][k].id = e.id
                             /\ DateOf(mail.threads[t][k]) = LatestExternalDate(t)
                       /\ e.status = IF UserMessageAfter(t, TRUE) THEN "DRAFT_ONLY"
                                     ELSE "NO_REPLY"

\* two threads were examined: the first answered by a draft only, the second
\* not answered at all, and both are reported
C27_Witness ==
    /\ mail.pc = "returned"
    /\ Len(mail.threads) = 2
    /\ ExternalIn(1) # {}
    /\ UserMessageAfter(1, TRUE)
    /\ \E e \in ReportedFor(1) : e.status = "DRAFT_ONLY"
    /\ \E e \in ReportedFor(2) : e.status = "NO_REPLY"

\* --------------------------------------------- claims about register_tools
\* C30: register_tools never sends POST /v1/tools for a name the server
\* already has, whatever became of the listing; so over two runs no tool is
\* stored twice; and the value returned is True exactly when no registration
\* failed.
C30_Claim_NeverPostsRegisteredTool ==
    /\ \A k \in 1..Len(registry.posts) : ~registry.posts[k].known
    /\ \A k, j \in 1..Len(registry.posts) :
          (registry.posts[k].created /\ registry.posts[j].created
              /\ registry.posts[k].name = registry.posts[j].name) => k = j
    /\ registry.pc = "returned" => (registry.result <=> registry.failed = 0)

====
